---- MODULE Spec2Model ----
(***************************************************************************)
(* Model of the Solo RPG Notation parser (src/src/parser/NotationParser.ts) *)
(*                                                                         *)
(* A document is a sequence of lines.  A line is represented by what the   *)
(* parser's regular expressions can tell about it (its kind) together with *)
(* the payload the later stages read from it.  Strings whose characters    *)
(* the code inspects (entity names, tags) are sequences of one-character   *)
(* strings, so that trim, toLowerCase, startsWith, indexOf and slice are   *)
(* computed and not assumed.                                               *)
(***************************************************************************)
EXTENDS Integers, Sequences, FiniteSets, TLC

(***************************************************************************)
(* Bounds of the model                                                     *)
(***************************************************************************)
MaxSessionLines == 4
MaxSceneLines == 5
MaxTagLines == 3
MaxMentions == 2
MaxTags == 2
MaxCycleLines == 3
MaxOrderLines == 2

(***************************************************************************)
(* Generic helpers                                                         *)
(***************************************************************************)
SeqsUpTo(S, n) == UNION {[1..k -> S] : k \in 1..n}

SeqsFromZero(S, n) == UNION {[1..k -> S] : k \in 0..n}

Range(s) == {s[i] : i \in 1..Len(s)}

(***************************************************************************)
(* Strings as character sequences                                          *)
(***************************************************************************)
\* String.prototype.toLowerCase on one character of the model's alphabet
LowerChar(c) ==
  CASE c = "J" -> "j"
    [] c = "S" -> "s"
    [] c = "R" -> "r"
    [] c = "X" -> "x"
    [] c = "F" -> "f"
    [] c = "N" -> "n"
    [] c = "M" -> "m"
    [] c = "H" -> "h"
    [] OTHER -> c

\* String.prototype.toLowerCase
toLowerCase(s) == [i \in 1..Len(s) |-> LowerChar(s[i])]

\* String.prototype.startsWith for a one-character prefix
startsWith(s, c) == Len(s) >= 1 /\ s[1] = c

\* String.prototype.indexOf for one character: 0-based, -1 when absent
indexOf(s, c) ==
  IF \E i \in 1..Len(s) : s[i] = c
  THEN (CHOOSE i \in 1..Len(s) : s[i] = c /\ \A j \in 1..(i-1) : s[j] # c) - 1
  ELSE -1

\* String.prototype.slice(from, to): 0-based, `to` exclusive
slice(s, from, to) == SubSeq(s, from + 1, to)

\* String.prototype.trim: drops leading and trailing blanks
RECURSIVE trimStart(_)
trimStart(s) == IF Len(s) >= 1 /\ s[1] = " " THEN trimStart(Tail(s)) ELSE s

RECURSIVE trimEnd(_)
trimEnd(s) ==
  IF Len(s) >= 1 /\ s[Len(s)] = " " THEN trimEnd(SubSeq(s, 1, Len(s) - 1)) ELSE s

trim(s) == trimEnd(trimStart(s))

(***************************************************************************)
(* Tags inside a line: what the tag extractor's patterns see               *)
(*   kind   N, L, PC, Thread, Clock, Track, Timer, E, #N, #L               *)
(*   name   the raw text after the colon                                   *)
(*   tags   the raw pipe-separated segments (N, L, PC)                     *)
(*   state  the state segment (Thread)                                     *)
(*   current, total  the numbers (Clock, Track, E; Timer uses current)     *)
(*   form   "space" or "pipe": how the numbers are separated from the name *)
(***************************************************************************)
Tag(kind, name, tags) ==
  [kind |-> kind, name |-> name, tags |-> tags, state |-> "", current |-> 0,
   total |-> 0, form |-> ""]

ThreadTag(name, state) ==
  [kind |-> "Thread", name |-> name, tags |-> <<>>, state |-> state,
   current |-> 0, total |-> 0, form |-> ""]

ProgressTag(kind, name, current, total, form) ==
  [kind |-> kind, name |-> name, tags |-> <<>>, state |-> "",
   current |-> current, total |-> total, form |-> form]

(***************************************************************************)
(* Lines                                                                   *)
(*   session  "## Session <n>"            (NotationParser.ts:102)          *)
(*   link     a line holding one wikilink "[[Session <n>]]"; `to` is the   *)
(*            path the metadata cache resolves it to, "" when it does not  *)
(*   scene    "### <id>"                   (NotationParser.ts:340)         *)
(*   fence    a line whose trimmed text is three backticks (:400)          *)
(*   blank    an empty or whitespace-only line                             *)
(*   line     any other line; `type` is the element type the line          *)
(*            classifier gives it, `tags` the tags in the text that        *)
(*            collectAllTags scans for that type                           *)
(***************************************************************************)
Line(k, n, to, id, type, tags) ==
  [k |-> k, n |-> n, to |-> to, id |-> id, type |-> type, tags |-> tags,
   outcome |-> <<>>]

SessionLine(n) == Line("session", n, "", "", "", <<>>)

LinkLine(n, to) == Line("link", n, to, "", "", <<>>)

SceneLine(id) == Line("scene", 0, "", id, "", <<>>)

FenceLine == Line("fence", 0, "", "", "", <<>>)

BlankLine == Line("blank", 0, "", "", "", <<>>)

TextLine(type, tags) == Line("line", 0, "", "", type, tags)

\* "d: <roll> => <outcome>": the outcome is the text after the arrow
RollLine(outcome) == [TextLine("mechanics_roll", <<>>) EXCEPT !.outcome = outcome]

\* content.split('\n') after lines.join('\n'): joining no lines gives the
\* empty string, which splits into one empty line
joinSplit(lines) == IF lines = <<>> THEN <<BlankLine>> ELSE lines

(***************************************************************************)
(* CodeBlockParser.parseCodeBlock: one element per non-blank line, the     *)
(* element of the line at index k numbered startLine + k                   *)
(***************************************************************************)
\* String.prototype.includes
includes(s, w) == \E i \in 1..(Len(s) - Len(w) + 1) : SubSeq(s, i, i + Len(w) - 1) = w

\* a keyword scan that knows no keyword of failure
determineSuccessNeverFalse(outcome) ==
  LET lower == toLowerCase(outcome)
  IN  IF \/ includes(lower, <<"s", "u", "c", "c", "e", "s", "s">>)
         \/ includes(lower, <<"s", "t", "r", "o", "n", "g", " ", "h", "i", "t">>)
      THEN "true"
      ELSE "null"

\* the success of a mechanics roll, from the keywords of its outcome
determineSuccess(outcome) ==
  LET lower == toLowerCase(outcome)
  IN  IF \/ includes(lower, <<"s", "u", "c", "c", "e", "s", "s">>)
         \/ includes(lower, <<"s", "t", "r", "o", "n", "g", " ", "h", "i", "t">>)
      THEN "true"
      ELSE IF \/ includes(lower, <<"f", "a", "i", "l">>)
              \/ includes(lower, <<"m", "i", "s", "s">>)
      THEN "false"
      ELSE "null"

\* `success` is "none" for an element that is no mechanics roll
classify(line, lineNumber) ==
  IF line.k = "line"
  THEN [type |-> line.type, lineNumber |-> lineNumber, tags |-> line.tags,
        outcome |-> line.outcome,
        success |-> IF line.type = "mechanics_roll"
                    THEN determineSuccess(line.outcome) ELSE "none"]
  ELSE [type |-> "text", lineNumber |-> lineNumber, tags |-> <<>>,
        outcome |-> <<>>, success |-> "none"]

\* a loop that counts the elements and not the lines
RECURSIVE codeBlockLoopCountsElements(_, _, _)
codeBlockLoopCountsElements(lines, k, startLine) ==
  IF lines = <<>> THEN <<>>
  ELSE IF Head(lines).k = "blank"
  THEN codeBlockLoopCountsElements(Tail(lines), k, startLine)
  ELSE <<classify(Head(lines), startLine + k)>>
       \o codeBlockLoopCountsElements(Tail(lines), k + 1, startLine)

RECURSIVE codeBlockLoop(_, _, _)
codeBlockLoop(lines, k, startLine) ==
  IF k >= Len(lines) THEN <<>>
  ELSE (IF lines[k + 1].k = "blank" THEN <<>>
        ELSE <<classify(lines[k + 1], startLine + k)>>)
       \o codeBlockLoop(lines, k + 1, startLine)

parseCodeBlock(content, startLine) == codeBlockLoop(joinSplit(content), 0, startLine)

(***************************************************************************)
(* NotationParser.parseSceneContent                                        *)
(***************************************************************************)
\* a loop that parses at its end the block that was opened and never closed
RECURSIVE sceneContentLoopFlushesOpen(_, _, _, _)
sceneContentLoopFlushesOpen(lines, i, st, baseLineNumber) ==
  IF i >= Len(lines)
  THEN IF st.inCodeBlock
       THEN st.elements \o parseCodeBlock(st.codeBlockContent,
                                          baseLineNumber + st.codeBlockStartLine)
       ELSE st.elements
  ELSE
    LET line == lines[i + 1] IN
    IF line.k = "fence" THEN
      IF st.inCodeBlock
      THEN sceneContentLoopFlushesOpen(lines, i + 1,
             [st EXCEPT !.elements = st.elements \o
                          parseCodeBlock(st.codeBlockContent,
                                         baseLineNumber + st.codeBlockStartLine),
                        !.codeBlockContent = <<>>,
                        !.inCodeBlock = FALSE],
             baseLineNumber)
      ELSE sceneContentLoopFlushesOpen(lines, i + 1,
             [st EXCEPT !.inCodeBlock = TRUE, !.codeBlockStartLine = i + 1],
             baseLineNumber)
    ELSE IF st.inCodeBlock
      THEN sceneContentLoopFlushesOpen(lines, i + 1,
             [st EXCEPT !.codeBlockContent = Append(st.codeBlockContent, line)],
             baseLineNumber)
      ELSE sceneContentLoopFlushesOpen(lines, i + 1, st, baseLineNumber)

RECURSIVE sceneContentLoop(_, _, _, _)
sceneContentLoop(lines, i, st, baseLineNumber) ==
  IF i >= Len(lines) THEN st.elements
  ELSE
    LET line == lines[i + 1] IN
    IF line.k = "fence" THEN
      IF st.inCodeBlock
      THEN sceneContentLoop(lines, i + 1,
             [st EXCEPT !.elements = st.elements \o
                          parseCodeBlock(st.codeBlockContent,
                                         baseLineNumber + st.codeBlockStartLine),
                        !.codeBlockContent = <<>>,
                        !.inCodeBlock = FALSE],
             baseLineNumber)
      ELSE sceneContentLoop(lines, i + 1,
             [st EXCEPT !.inCodeBlock = TRUE, !.codeBlockStartLine = i + 1],
             baseLineNumber)
    ELSE IF st.inCodeBlock
      THEN sceneContentLoop(lines, i + 1,
             [st EXCEPT !.codeBlockContent = Append(st.codeBlockContent, line)],
             baseLineNumber)
      ELSE sceneContentLoop(lines, i + 1, st, baseLineNumber)

parseSceneContent(content, baseLineNumber) ==
  sceneContentLoop(joinSplit(content), 0,
    [inCodeBlock |-> FALSE, codeBlockContent |-> <<>>, codeBlockStartLine |-> 0,
     elements |-> <<>>],
    baseLineNumber)

(***************************************************************************)
(* NotationParser.parseScenes                                              *)
(***************************************************************************)
NoScene == [number |-> "", startLine |-> -1, endLine |-> -1, elements |-> <<>>]

\* "Save previous scene" / "Save last scene"
saveScene(st, baseLineNumber, endLine) ==
  IF st.currentScene = NoScene THEN st.scenes
  ELSE Append(st.scenes,
         [st.currentScene EXCEPT
            !.elements = parseSceneContent(st.currentSceneContent,
                                           baseLineNumber + st.sceneStartLine),
            !.endLine = endLine])

\* a loop that opens a scene of its own for the lines before the first heading
RECURSIVE scenesLoopOpensScene(_, _, _, _)
scenesLoopOpensScene(lines, i, st, baseLineNumber) ==
  IF i >= Len(lines)
  THEN saveScene(st, baseLineNumber, baseLineNumber + Len(lines) - 1)
  ELSE
    LET line == lines[i + 1] IN
    IF line.k = "scene"
    THEN scenesLoopOpensScene(lines, i + 1,
           [scenes |-> saveScene(st, baseLineNumber, baseLineNumber + i - 1),
            currentScene |-> [number |-> line.id,
                              startLine |-> baseLineNumber + i,
                              endLine |-> baseLineNumber + i,
                              elements |-> <<>>],
            currentSceneContent |-> <<>>,
            sceneStartLine |-> i],
           baseLineNumber)
    ELSE IF st.currentScene # NoScene
      THEN scenesLoopOpensScene(lines, i + 1,
             [st EXCEPT !.currentSceneContent = Append(st.currentSceneContent, line)],
             baseLineNumber)
      ELSE scenesLoopOpensScene(lines, i + 1,
             [st EXCEPT !.currentScene = [number |-> "S0",
                                          startLine |-> baseLineNumber + i,
                                          endLine |-> baseLineNumber + i,
                                          elements |-> <<>>],
                        !.currentSceneContent = <<line>>,
                        !.sceneStartLine = i - 1],
             baseLineNumber)

RECURSIVE scenesLoop(_, _, _, _)
scenesLoop(lines, i, st, baseLineNumber) ==
  IF i >= Len(lines)
  THEN saveScene(st, baseLineNumber, baseLineNumber + Len(lines) - 1)
  ELSE
    LET line == lines[i + 1] IN
    IF line.k = "scene"
    THEN scenesLoop(lines, i + 1,
           [scenes |-> saveScene(st, baseLineNumber, baseLineNumber + i - 1),
            currentScene |-> [number |-> line.id,
                              startLine |-> baseLineNumber + i,
                              endLine |-> baseLineNumber + i,
                              elements |-> <<>>],
            currentSceneContent |-> <<>>,
            sceneStartLine |-> i],
           baseLineNumber)
    ELSE IF st.currentScene # NoScene
      THEN scenesLoop(lines, i + 1,
             [st EXCEPT !.currentSceneContent = Append(st.currentSceneContent, line)],
             baseLineNumber)
      ELSE scenesLoop(lines, i + 1, st, baseLineNumber)

parseScenes(content, baseLineNumber) ==
  scenesLoop(joinSplit(content), 0,
    [scenes |-> <<>>, currentScene |-> NoScene, currentSceneContent |-> <<>>,
     sceneStartLine |-> 0],
    baseLineNumber)

(***************************************************************************)
(* The vault: the documents a session link may resolve to                  *)
(*   status "file"        a file that can be read                          *)
(*          "missing"     getAbstractFileByPath finds no file at the path  *)
(*          "unreadable"  a file whose read throws                         *)
(***************************************************************************)
CampaignPath == "campaign.md"

Paths == {"a.md", "b.md"}

Statuses == {"file", "missing", "unreadable"}

(***************************************************************************)
(* State                                                                   *)
(***************************************************************************)
VARIABLES
  doc,                    \* content.split('\n') of the campaign document
  vault,                  \* path -> [status, lines]
  pc,                     \* "scan", "read" (suspended in vault.read), "done"
  currentLineNumber,      \* NotationParser.ts:96
  currentSession,         \* :93
  currentSessionContent,  \* :94
  sessionStartLine,       \* :95
  sessions,               \* :86, in the order the sessions were pushed
  reading,                \* the link whose document is being read
  campaign,               \* the value parseCampaignFile returns
  mkind,                  \* which of mergeNPCs, mergeLocations, mergePlayerCharacters runs
  merged,                 \* its `merged` map (:545, :577, :629)
  npc,                    \* the mention of the current iteration (:547)
  ti,                     \* how many of its tags the tag loop has handled (:550)
  mphase,                 \* "idle" between iterations, "tags" in the tag loop,
                          \* "merged" at the end of an iteration
  before,                 \* `existing` as it was when the iteration began, or NoEntity
  count,                  \* the number of iterations begun
  other,                  \* the locals of a second parseCampaignFile call that is
                          \* not running now: not started, awaiting a read, or ended
  block,                  \* a call of CodeBlockParser.parseCodeBlock: its arguments
                          \* and, once it has run, the elements it returned
  view,                   \* the fields of the DashboardView and what it has rendered
  workspace               \* the active editor, the notice of the last step and the
                          \* navigateToLocation calls that await leaf.openFile

parseVars == <<doc, vault, pc, currentLineNumber, currentSession,
               currentSessionContent, sessionStartLine, sessions, reading, campaign>>

mergeVars == <<mkind, merged, npc, ti, mphase, before, count>>

auxVars == <<other, block, view, workspace>>

vars == <<doc, vault, pc, currentLineNumber, currentSession,
          currentSessionContent, sessionStartLine, sessions, reading, campaign,
          mkind, merged, npc, ti, mphase, before, count, other, block,
          view, workspace>>

NoSession ==
  [number |-> -1, scenes |-> <<>>, startLine |-> -1, endLine |-> -1,
   linkedFile |-> ""]

NoLink == [lineNumber |-> -1, sessionNumber |-> -1, linkedFilePath |-> ""]

\* no second call
NoOther == [pc |-> "none"]

\* the files a stored location can name
NavPaths == {CampaignPath, "a.md"}

\* no file is open and no navigation is running
NoWorkspace ==
  [files |-> [p \in NavPaths |-> 0], active |-> "", cursor |-> 0, notice |-> "",
   navs |-> {}]

\* no call of parseCodeBlock
NoBlock == [content |-> <<>>, startLine |-> 0, elements |-> <<>>, ran |-> FALSE]

NoCampaign ==
  [file |-> "", sessions |-> <<>>, npcs |-> <<>>, locations |-> <<>>,
   threads |-> <<>>, clocks |-> <<>>, tracks |-> <<>>, timers |-> <<>>,
   events |-> <<>>, playerCharacters |-> <<>>, references |-> <<>>]

\* the dashboard is not open
NoView ==
  [currentScreen |-> "off", selectedCampaign |-> NoCampaign, currentElementType |-> "All",
   searchQuery |-> <<>>, debounceTimer |-> "null", screen |-> "off", list |-> <<>>]

(***************************************************************************)
(* NotationParser.extractSessionLinks: the links of the document in line   *)
(* order, each with the path it resolves to                                *)
(***************************************************************************)
RECURSIVE sessionLinksLoop(_, _)
sessionLinksLoop(lines, i) ==
  IF i >= Len(lines) THEN <<>>
  ELSE (IF lines[i + 1].k = "link"
        THEN <<[lineNumber |-> i, sessionNumber |-> lines[i + 1].n,
                linkedFilePath |-> lines[i + 1].to]>>
        ELSE <<>>)
       \o sessionLinksLoop(lines, i + 1)

extractSessionLinks(lines) == sessionLinksLoop(lines, 0)

\* sessionLinks.find(l => l.lineNumber === currentLineNumber)
findLink(links, lineNumber) ==
  IF \E i \in 1..Len(links) : links[i].lineNumber = lineNumber
  THEN links[CHOOSE i \in 1..Len(links) :
               /\ links[i].lineNumber = lineNumber
               /\ \A j \in 1..(i - 1) : links[j].lineNumber # lineNumber]
  ELSE NoLink

\* a loop that looks for a link on every line, a session open or not
linkMatchWhileOpen == findLink(extractSessionLinks(doc), currentLineNumber)

\* the link the loop sees on the current line (NotationParser.ts:105-107)
linkMatch ==
  IF currentSession = NoSession
  THEN findLink(extractSessionLinks(doc), currentLineNumber)
  ELSE NoLink

(***************************************************************************)
(* NotationParser.parseSessionFile, after a successful read                *)
(***************************************************************************)
parseSessionFile(filePath, sessionNumber, content) ==
  [number |-> sessionNumber,
   scenes |-> parseScenes(content, 0),
   startLine |-> 0,
   endLine |-> Len(content) - 1,
   linkedFile |-> filePath]

\* "Save previous session" / "Save last inline session"
saveSession(list, session, content, startLine, endLine) ==
  IF session = NoSession THEN list
  ELSE Append(list, [session EXCEPT !.scenes = parseScenes(content, startLine),
                                    !.endLine = endLine])

(***************************************************************************)
(* sessions.sort((a, b) => a.number - b.number): Array.prototype.sort is   *)
(* stable, elements that compare equal keep their order                    *)
(***************************************************************************)
RECURSIVE insertByNumber(_, _)
insertByNumber(sorted, s) ==
  IF sorted = <<>> THEN <<s>>
  ELSE IF sorted[Len(sorted)].number <= s.number THEN Append(sorted, s)
  ELSE Append(insertByNumber(SubSeq(sorted, 1, Len(sorted) - 1), s),
              sorted[Len(sorted)])

RECURSIVE sortLoop(_, _)
sortLoop(list, acc) ==
  IF list = <<>> THEN acc ELSE sortLoop(Tail(list), insertByNumber(acc, Head(list)))

\* a parser that returns the sessions in the order they were pushed
sortSessionsSkipped(list) == list

sortSessions(list) == sortLoop(list, <<>>)

(***************************************************************************)
(* Location: where a mention was found.  `session` holds the session       *)
(* number n of the label "Session n".                                      *)
(***************************************************************************)
Loc(file, lineNumber, session, scene) ==
  [file |-> file, lineNumber |-> lineNumber, session |-> session, scene |-> scene]

\* no entity: `existing` is undefined
NoEntity ==
  [id |-> <<>>, name |-> <<>>, tags |-> <<>>, firstMention |-> Loc("", -1, -1, ""),
   mentions |-> <<>>]

(***************************************************************************)
(* TagExtractor.extractTags: one mention per forward tag of the text, per  *)
(* kind in left-to-right order.  Names and tags are trimmed, the identity  *)
(* is the kind prefix followed by the lower-cased name, a tag with an      *)
(* empty name gives no mention.                                            *)
(***************************************************************************)
named(tags, kind) ==
  SelectSeq(tags, LAMBDA t : t.kind = kind /\ trim(t.name) # <<>>)

taggedMention(t, prefix, location) ==
  [id |-> <<prefix>> \o toLowerCase(trim(t.name)),
   name |-> trim(t.name),
   tags |-> [i \in 1..Len(t.tags) |-> trim(t.tags[i])],
   firstMention |-> location,
   mentions |-> <<location>>]

threadMention(t, location) ==
  [id |-> <<"thread:">> \o toLowerCase(trim(t.name)),
   name |-> trim(t.name),
   state |-> t.state,
   firstMention |-> location,
   mentions |-> <<location>>]

\* the space-separated and the pipe-separated numeric forms give the same record
progressMention(t, prefix, location) ==
  [id |-> <<prefix>> \o toLowerCase(trim(t.name)),
   name |-> trim(t.name),
   current |-> t.current,
   total |-> t.total,
   locations |-> <<location>>]

extractNPCs(tags, location) ==
  LET found == named(tags, "N")
  IN  [i \in 1..Len(found) |-> taggedMention(found[i], "npc:", location)]

extractLocations(tags, location) ==
  LET found == named(tags, "L")
  IN  [i \in 1..Len(found) |-> taggedMention(found[i], "location:", location)]

extractPlayerCharacters(tags, location) ==
  LET found == named(tags, "PC")
  IN  [i \in 1..Len(found) |-> taggedMention(found[i], "pc:", location)]

extractThreads(tags, location) ==
  LET found == SelectSeq(named(tags, "Thread"), LAMBDA t : t.state # "")
  IN  [i \in 1..Len(found) |-> threadMention(found[i], location)]

extractClocks(tags, location) ==
  LET found == named(tags, "Clock")
  IN  [i \in 1..Len(found) |-> progressMention(found[i], "clock:", location)]

extractTracks(tags, location) ==
  LET found == named(tags, "Track")
  IN  [i \in 1..Len(found) |-> progressMention(found[i], "track:", location)]

extractTimers(tags, location) ==
  LET found == named(tags, "Timer")
  IN  [i \in 1..Len(found) |-> progressMention(found[i], "timer:", location)]

extractEvents(tags, location) ==
  LET found == named(tags, "E")
  IN  [i \in 1..Len(found) |-> progressMention(found[i], "event:", location)]

extractTags(tags, location) ==
  [npcs |-> extractNPCs(tags, location),
   locations |-> extractLocations(tags, location),
   threads |-> extractThreads(tags, location),
   clocks |-> extractClocks(tags, location),
   tracks |-> extractTracks(tags, location),
   timers |-> extractTimers(tags, location),
   events |-> extractEvents(tags, location),
   playerCharacters |-> extractPlayerCharacters(tags, location)]

(***************************************************************************)
(* TagExtractor.extractReferences: the back-references [#N:..] and [#L:..] *)
(* of the text, left to right                                              *)
(***************************************************************************)
extractReferences(tags) ==
  LET found == SelectSeq(tags, LAMBDA t : t.kind \in {"#N", "#L"} /\ trim(t.name) # <<>>)
  IN  [i \in 1..Len(found) |->
         [type |-> IF found[i].kind = "#N" THEN "npc" ELSE "location",
          name |-> trim(found[i].name)]]

(***************************************************************************)
(* NotationParser.collectAllTags                                           *)
(***************************************************************************)
\* the element types whose text is scanned (:449-467); a meta note is
\* skipped (:468-470) and any other type leaves contentToScan empty
ScannedTypes ==
  {"action", "oracle_question", "mechanics_roll", "oracle_result", "consequence",
   "text", "table_lookup", "generator"}

NoTags ==
  [npcs |-> <<>>, locations |-> <<>>, threads |-> <<>>, clocks |-> <<>>,
   tracks |-> <<>>, timers |-> <<>>, events |-> <<>>, playerCharacters |-> <<>>,
   references |-> <<>>]

\* :488-494 the Reference made from one back-reference
referenceOf(ref, location) ==
  [id |-> ref.name, name |-> ref.name, type |-> ref.type,
   firstMention |-> location, mentions |-> <<location>>]

\* a back-reference entity whose id keeps the case of the name
entityOfReferenceRawName(ref, location) ==
  [id |-> <<IF ref.type = "npc" THEN "npc:" ELSE "location:">> \o ref.name,
   name |-> ref.name,
   tags |-> <<>>,
   firstMention |-> location,
   mentions |-> <<location>>]

\* :497-513 the zero-tag NPC or Location made from one back-reference
entityOfReference(ref, location) ==
  [id |-> <<IF ref.type = "npc" THEN "npc:" ELSE "location:">> \o toLowerCase(ref.name),
   name |-> ref.name,
   tags |-> <<>>,
   firstMention |-> location,
   mentions |-> <<location>>]

\* a loop without the `continue` for meta notes
collectElementScansMeta(all, session, scene, element, filePath) ==
  IF element.tags = <<>> THEN all
  ELSE
    LET location == Loc(filePath, element.lineNumber, session.number, scene.number)
        tags == extractTags(element.tags, location)
        refs == extractReferences(element.tags)
        npcRefs == SelectSeq(refs, LAMBDA r : r.type = "npc")
        locRefs == SelectSeq(refs, LAMBDA r : r.type = "location")
    IN  [npcs |-> all.npcs \o tags.npcs \o
                    [i \in 1..Len(npcRefs) |-> entityOfReference(npcRefs[i], location)],
         locations |-> all.locations \o tags.locations \o
                    [i \in 1..Len(locRefs) |-> entityOfReference(locRefs[i], location)],
         threads |-> all.threads \o tags.threads,
         clocks |-> all.clocks \o tags.clocks,
         tracks |-> all.tracks \o tags.tracks,
         timers |-> all.timers \o tags.timers,
         events |-> all.events \o tags.events,
         playerCharacters |-> all.playerCharacters \o tags.playerCharacters,
         references |-> all.references \o
                    [i \in 1..Len(refs) |-> referenceOf(refs[i], location)]]

\* :439-516 the body of the innermost loop, for one element
collectElement(all, session, scene, element, filePath) ==
  IF element.type \notin ScannedTypes \/ element.tags = <<>> THEN all
  ELSE
    LET location == Loc(filePath, element.lineNumber, session.number, scene.number)
        tags == extractTags(element.tags, location)
        refs == extractReferences(element.tags)
        npcRefs == SelectSeq(refs, LAMBDA r : r.type = "npc")
        locRefs == SelectSeq(refs, LAMBDA r : r.type = "location")
    IN  [npcs |-> all.npcs \o tags.npcs \o
                    [i \in 1..Len(npcRefs) |-> entityOfReference(npcRefs[i], location)],
         locations |-> all.locations \o tags.locations \o
                    [i \in 1..Len(locRefs) |-> entityOfReference(locRefs[i], location)],
         threads |-> all.threads \o tags.threads,
         clocks |-> all.clocks \o tags.clocks,
         tracks |-> all.tracks \o tags.tracks,
         timers |-> all.timers \o tags.timers,
         events |-> all.events \o tags.events,
         playerCharacters |-> all.playerCharacters \o tags.playerCharacters,
         references |-> all.references \o
                    [i \in 1..Len(refs) |-> referenceOf(refs[i], location)]]

RECURSIVE collectElements(_, _, _, _, _)
collectElements(all, session, scene, elements, filePath) ==
  IF elements = <<>> THEN all
  ELSE collectElements(collectElement(all, session, scene, Head(elements), filePath),
                       session, scene, Tail(elements), filePath)

RECURSIVE collectScenes(_, _, _, _)
collectScenes(all, session, scenes, filePath) ==
  IF scenes = <<>> THEN all
  ELSE collectScenes(collectElements(all, session, Head(scenes),
                                     Head(scenes).elements, filePath),
                     session, Tail(scenes), filePath)

RECURSIVE collectSessions(_, _, _)
collectSessions(all, list, filePath) ==
  IF list = <<>> THEN all
  ELSE collectSessions(collectScenes(all, Head(list), Head(list).scenes, filePath),
                       Tail(list), filePath)

collectAllTags(list, filePath) == collectSessions(NoTags, list, filePath)

(***************************************************************************)
(* Map<string, T>: the entries in insertion order                          *)
(***************************************************************************)
mapHas(m, key) == \E i \in 1..Len(m) : m[i].key = key

mapIndex(m, key) == CHOOSE i \in 1..Len(m) : m[i].key = key

mapGet(m, key) == m[mapIndex(m, key)].value

\* Map.prototype.set, and the update of an entry's object in place
mapSet(m, key, value) ==
  IF mapHas(m, key) THEN [m EXCEPT ![mapIndex(m, key)].value = value]
  ELSE Append(m, [key |-> key, value |-> value])

mapKeys(m) == {m[i].key : i \in 1..Len(m)}

(***************************************************************************)
(* NotationParser.getTagKey                                                *)
(***************************************************************************)
\* a key function that never cuts the tag at its "="
getTagKeyWhole(tag) == tag

getTagKey(tag) ==
  LET equalsIndex == indexOf(tag, "=")
  IN  IF equalsIndex # -1 THEN slice(tag, 0, equalsIndex) ELSE tag

(***************************************************************************)
(* NotationParser.mergeNPCs / mergeLocations / mergePlayerCharacters: the  *)
(* three functions have the same body                                      *)
(***************************************************************************)
\* a merge that treats a tag "-t" as any other tag
mergeTagNoRemoval(tags, tag) ==
  LET newTagKey == getTagKey(tag)
      kept == IF newTagKey # tag
              THEN SelectSeq(tags, LAMBDA t : getTagKey(t) # newTagKey)
              ELSE tags
  IN  IF \E i \in 1..Len(kept) : kept[i] = tag THEN kept ELSE Append(kept, tag)

\* a merge that appends a tag although it is present already
mergeTagAlwaysPush(tags, tag) ==
  IF startsWith(tag, "-")
  THEN LET tagToRemove == slice(tag, 1, Len(tag))
       IN  SelectSeq(tags, LAMBDA t : t # tagToRemove)
  ELSE LET newTagKey == getTagKey(tag)
           kept == IF newTagKey # tag
                   THEN SelectSeq(tags, LAMBDA t : getTagKey(t) # newTagKey)
                   ELSE tags
       IN  Append(kept, tag)

\* :551-562 the body of `for (const tag of npc.tags)`
mergeTag(tags, tag) ==
  IF startsWith(tag, "-")
  THEN LET tagToRemove == slice(tag, 1, Len(tag))
       IN  SelectSeq(tags, LAMBDA t : t # tagToRemove)
  ELSE LET newTagKey == getTagKey(tag)
           kept == IF newTagKey # tag
                   THEN SelectSeq(tags, LAMBDA t : getTagKey(t) # newTagKey)
                   ELSE tags
       IN  IF \E i \in 1..Len(kept) : kept[i] = tag THEN kept ELSE Append(kept, tag)

\* :550-563 the whole tag loop
RECURSIVE mergeTags(_, _)
mergeTags(tags, newTags) ==
  IF newTags = <<>> THEN tags
  ELSE mergeTags(mergeTag(tags, Head(newTags)), Tail(newTags))

\* a merge that drops the mentions of the later occurrence
pushMentionsDropped(mentions, more) == mentions

\* :564 existing.mentions.push(...npc.mentions)
pushMentions(mentions, more) == mentions \o more

\* a merge that takes over the later mention's record, keeping tags and mentions
mergeTaggedLatestRecord(acc, item) ==
  IF mapHas(acc, item.id)
  THEN LET existing == mapGet(acc, item.id)
       IN  mapSet(acc, item.id,
                  [item EXCEPT !.tags = mergeTags(existing.tags, item.tags),
                               !.mentions = pushMentions(existing.mentions, item.mentions)])
  ELSE mapSet(acc, item.id, item)

\* :548-567 the body of `for (const npc of npcs)`
mergeTagged(acc, item) ==
  IF mapHas(acc, item.id)
  THEN LET existing == mapGet(acc, item.id)
       IN  mapSet(acc, item.id,
                  [existing EXCEPT !.tags = mergeTags(existing.tags, item.tags),
                                   !.mentions = pushMentions(existing.mentions, item.mentions)])
  ELSE mapSet(acc, item.id, item)

RECURSIVE mergeTaggedLoop(_, _)
mergeTaggedLoop(acc, list) ==
  IF list = <<>> THEN acc
  ELSE mergeTaggedLoop(mergeTagged(acc, Head(list)), Tail(list))

mergeNPCs(npcs) == mergeTaggedLoop(<<>>, npcs)

mergeLocations(locations) == mergeTaggedLoop(<<>>, locations)

mergePlayerCharacters(pcs) == mergeTaggedLoop(<<>>, pcs)

(***************************************************************************)
(* NotationParser.mergeThreads                                             *)
(***************************************************************************)
\* a thread merge that keeps the state of the first mention
mergeThreadKeepsState(acc, thread) ==
  IF mapHas(acc, thread.id)
  THEN LET existing == mapGet(acc, thread.id)
       IN  mapSet(acc, thread.id,
                  [existing EXCEPT !.mentions = pushMentions(existing.mentions, thread.mentions)])
  ELSE mapSet(acc, thread.id, thread)

mergeThread(acc, thread) ==
  IF mapHas(acc, thread.id)
  THEN LET existing == mapGet(acc, thread.id)
       IN  mapSet(acc, thread.id,
                  [existing EXCEPT !.state = thread.state,
                                   !.mentions = pushMentions(existing.mentions, thread.mentions)])
  ELSE mapSet(acc, thread.id, thread)

RECURSIVE mergeThreadsLoop(_, _)
mergeThreadsLoop(acc, list) ==
  IF list = <<>> THEN acc
  ELSE mergeThreadsLoop(mergeThread(acc, Head(list)), Tail(list))

mergeThreads(threads) == mergeThreadsLoop(<<>>, threads)

(***************************************************************************)
(* NotationParser.mergeReferences: keyed by `${ref.type}:${ref.id}`        *)
(***************************************************************************)
referenceKey(ref) == <<IF ref.type = "npc" THEN "npc:" ELSE "location:">> \o ref.id

mergeReference(acc, ref) ==
  IF mapHas(acc, referenceKey(ref))
  THEN LET existing == mapGet(acc, referenceKey(ref))
       IN  mapSet(acc, referenceKey(ref),
                  [existing EXCEPT !.mentions = pushMentions(existing.mentions, ref.mentions)])
  ELSE mapSet(acc, referenceKey(ref), ref)

RECURSIVE mergeReferencesLoop(_, _)
mergeReferencesLoop(acc, list) ==
  IF list = <<>> THEN acc
  ELSE mergeReferencesLoop(mergeReference(acc, Head(list)), Tail(list))

mergeReferences(references) == mergeReferencesLoop(<<>>, references)

(***************************************************************************)
(* ProgressParser.mergeClocks / mergeTracks / mergeTimers / mergeEvents:   *)
(* the latest mention's numbers replace the record's, the mention's        *)
(* location is appended                                                    *)
(***************************************************************************)
\* a progress merge that keeps the values of the first mention
mergeProgressKeepsFirst(acc, item) ==
  IF mapHas(acc, item.id)
  THEN LET existing == mapGet(acc, item.id)
       IN  mapSet(acc, item.id,
                  [existing EXCEPT !.locations = existing.locations \o item.locations])
  ELSE mapSet(acc, item.id, item)

mergeProgressOne(acc, item) ==
  IF mapHas(acc, item.id)
  THEN LET existing == mapGet(acc, item.id)
       IN  mapSet(acc, item.id,
                  [existing EXCEPT !.current = item.current,
                                   !.total = item.total,
                                   !.locations = existing.locations \o item.locations])
  ELSE mapSet(acc, item.id, item)

RECURSIVE mergeProgressLoop(_, _)
mergeProgressLoop(acc, list) ==
  IF list = <<>> THEN acc
  ELSE mergeProgressLoop(mergeProgressOne(acc, Head(list)), Tail(list))

mergeClocks(clocks) == mergeProgressLoop(<<>>, clocks)

mergeTracks(tracks) == mergeProgressLoop(<<>>, tracks)

mergeTimers(timers) == mergeProgressLoop(<<>>, timers)

mergeEvents(events) == mergeProgressLoop(<<>>, events)

(***************************************************************************)
(* The title: NotationParser.extractFrontMatter and extractTitle           *)
(***************************************************************************)
\* the first line of a front-matter block and the line that closes it: "---"
DelimLine == Line("delim", 0, "", "", "", <<>>)

\* a line of YAML: "title: <text>" (type title), "author: x" (type other),
\* or a line that parseYaml rejects (type bad)
YamlLine(type, text) == Line("yaml", 0, "", text, type, <<>>)

\* "# <text>"
HeadingLine(text) == Line("h1", 0, "", text, "", <<>>)

\* a line that holds "#" and nothing else
HashLine == Line("hash", 0, "", "", "", <<>>)

\* the text of a line, as far as the title patterns look at it
lineText(line) ==
  CASE line.k = "h1" -> <<"#", " ">> \o line.id
    [] line.k = "hash" -> <<"#">>
    [] line.k = "session" -> <<"#", "#", " ", "S", "e", "s", "s", "i", "o", "n">>
    [] line.k = "scene" -> <<"#", "#", "#", " ", "S">>
    [] line.k = "delim" -> <<"-", "-", "-">>
    [] line.k = "blank" -> <<>>
    [] line.k = "link" -> <<"[", "[", "S", "e", "s", "s", "i", "o", "n", "]", "]">>
    [] line.k = "yaml" -> <<"k", ":", " ">> \o line.id
    [] OTHER -> <<"t", "e", "x", "t">>

\* the empty object
NoFrontMatter == [keys |-> {}, title |-> <<>>]

\* obsidian's parseYaml on the lines of the block: it throws on a line that
\* is no YAML mapping entry; a key that is absent reads as undefined, which
\* `||` treats as the empty string
parseYaml(body) ==
  IF \E i \in 1..Len(body) : body[i].k # "yaml" \/ body[i].type = "bad"
  THEN [throws |-> TRUE, value |-> NoFrontMatter]
  ELSE LET titles == {i \in 1..Len(body) : body[i].type = "title"}
       IN  [throws |-> FALSE,
            value |-> [keys |-> {body[i].type : i \in 1..Len(body)},
                       title |-> IF titles = {} THEN <<>>
                                 ELSE body[CHOOSE i \in titles :
                                             \A j \in titles : i <= j].id]]

\* :62-73 content.match(/^---\n([\s\S]*?)\n---/): the content begins with a
\* "---" line and the block ends before the first later line, not the
\* second, that begins with "---"
extractFrontMatter(content) ==
  LET closing == {j \in 3..Len(content) : content[j].k = "delim"}
  IN  IF Len(content) < 3 \/ content[1].k # "delim" \/ closing = {}
      THEN NoFrontMatter
      ELSE LET j == CHOOSE x \in closing : \A y \in closing : x <= y
               yaml == parseYaml(SubSeq(content, 2, j - 1))
           IN  IF yaml.throws THEN NoFrontMatter ELSE yaml.value

UntitledCampaign ==
  <<"U", "n", "t", "i", "t", "l", "e", "d", " ",
    "C", "a", "m", "p", "a", "i", "g", "n">>

\* :78-81 content.match(/^#\s+(.+)$/m): the first line that begins with "#"
\* and white space; \s+ also matches line ends, so after a line that holds
\* "#" alone the match runs on to the next line that is not blank and
\* captures that line
extractTitle(content) ==
  LET heads == {i \in 1..Len(content) :
                  \/ content[i].k = "h1"
                  \/ /\ content[i].k = "hash"
                     /\ \E j \in (i + 1)..Len(content) : content[j].k # "blank"}
  IN  IF heads = {} THEN UntitledCampaign
      ELSE LET i == CHOOSE x \in heads : \A y \in heads : x <= y
           IN  IF content[i].k = "h1" THEN trim(content[i].id)
               ELSE LET rest == {j \in (i + 1)..Len(content) : content[j].k # "blank"}
                    IN  trim(lineText(content[CHOOSE x \in rest : \A y \in rest : x <= y]))

\* :28-31 frontMatter.title || this.extractTitle(content)
titleOf(content) ==
  LET frontMatter == extractFrontMatter(content)
  IN  IF frontMatter.title # <<>> THEN frontMatter.title ELSE extractTitle(content)

(***************************************************************************)
(* NotationParser.parseCampaignFile: the returned object                   *)
(***************************************************************************)
buildCampaign(content, sorted, filePath) ==
  LET allTags == collectAllTags(sorted, filePath)
  IN  [file |-> filePath,
       title |-> titleOf(content),
       frontMatter |-> extractFrontMatter(content),
       sessions |-> sorted,
       npcs |-> mergeNPCs(allTags.npcs),
       locations |-> mergeLocations(allTags.locations),
       threads |-> mergeThreads(allTags.threads),
       clocks |-> mergeClocks(allTags.clocks),
       tracks |-> mergeTracks(allTags.tracks),
       timers |-> mergeTimers(allTags.timers),
       events |-> mergeEvents(allTags.events),
       playerCharacters |-> mergePlayerCharacters(allTags.playerCharacters),
       references |-> mergeReferences(allTags.references)]

(***************************************************************************)
(* NotationParser.parseSessions, one action per iteration of the loop      *)
(***************************************************************************)
Scanning == pc = "scan" /\ currentLineNumber < Len(doc)

\* :109-139 the line is an inline session header
SessionHeader ==
  /\ Scanning
  /\ doc[currentLineNumber + 1].k = "session"
  /\ sessions' = saveSession(sessions, currentSession, currentSessionContent,
                             sessionStartLine, currentLineNumber - 1)
  /\ sessionStartLine' = currentLineNumber
  /\ currentSessionContent' = <<>>
  /\ currentSession' = [number |-> doc[currentLineNumber + 1].n,
                        scenes |-> <<>>,
                        startLine |-> currentLineNumber,
                        endLine |-> currentLineNumber,
                        linkedFile |-> ""]
  /\ currentLineNumber' = currentLineNumber + 1
  /\ UNCHANGED <<doc, vault, pc, reading, campaign>>
  /\ UNCHANGED mergeVars
  /\ UNCHANGED auxVars

\* :140-154 a link that the metadata cache did not resolve
LinkUnresolved ==
  /\ Scanning
  /\ doc[currentLineNumber + 1].k # "session"
  /\ linkMatch # NoLink
  /\ linkMatch.linkedFilePath = ""
  /\ currentLineNumber' = currentLineNumber + 1
  /\ UNCHANGED <<doc, vault, pc, currentSession, currentSessionContent,
                 sessionStartLine, sessions, reading, campaign>>
  /\ UNCHANGED mergeVars
  /\ UNCHANGED auxVars

\* :143, :279-283 the path holds no file: parseSessionFile returns null
LinkNotFile ==
  /\ Scanning
  /\ doc[currentLineNumber + 1].k # "session"
  /\ linkMatch # NoLink
  /\ linkMatch.linkedFilePath # ""
  /\ vault[linkMatch.linkedFilePath].status = "missing"
  /\ currentLineNumber' = currentLineNumber + 1
  /\ UNCHANGED <<doc, vault, pc, currentSession, currentSessionContent,
                 sessionStartLine, sessions, reading, campaign>>
  /\ UNCHANGED mergeVars
  /\ UNCHANGED auxVars

\* a loop that starts the read and goes on to the next line without awaiting it
ReadStartNoAwait ==
  /\ Scanning
  /\ doc[currentLineNumber + 1].k # "session"
  /\ linkMatch # NoLink
  /\ linkMatch.linkedFilePath # ""
  /\ vault[linkMatch.linkedFilePath].status # "missing"
  /\ reading' = linkMatch
  /\ currentLineNumber' = currentLineNumber + 1
  /\ UNCHANGED <<doc, vault, pc, currentSession, currentSessionContent,
                 sessionStartLine, sessions, campaign>>
  /\ UNCHANGED mergeVars
  /\ UNCHANGED auxVars

\* :143, :285 parseSessionFile suspends in `await this.app.vault.read(file)`
ReadStart ==
  /\ Scanning
  /\ doc[currentLineNumber + 1].k # "session"
  /\ linkMatch # NoLink
  /\ linkMatch.linkedFilePath # ""
  /\ vault[linkMatch.linkedFilePath].status # "missing"
  /\ reading' = linkMatch
  /\ pc' = "read"
  /\ UNCHANGED <<doc, vault, currentLineNumber, currentSession,
                 currentSessionContent, sessionStartLine, sessions, campaign>>
  /\ UNCHANGED mergeVars
  /\ UNCHANGED auxVars

\* a read that goes on to read the document the linked document links to
ReadOkFollowsLinks ==
  /\ pc = "read"
  /\ vault[reading.linkedFilePath].status = "file"
  /\ LET inner == extractSessionLinks(vault[reading.linkedFilePath].lines)
     IN  IF inner # <<>> /\ inner[1].linkedFilePath # ""
         THEN /\ reading' = [inner[1] EXCEPT !.lineNumber = reading.lineNumber]
              /\ UNCHANGED <<pc, sessions, currentLineNumber>>
         ELSE /\ sessions' = Append(sessions,
                   [parseSessionFile(reading.linkedFilePath, reading.sessionNumber,
                                     vault[reading.linkedFilePath].lines)
                      EXCEPT !.startLine = reading.lineNumber,
                             !.endLine = reading.lineNumber])
              /\ reading' = NoLink
              /\ pc' = "scan"
              /\ currentLineNumber' = currentLineNumber + 1
  /\ UNCHANGED <<doc, vault, currentSession, currentSessionContent,
                 sessionStartLine, campaign>>
  /\ UNCHANGED mergeVars
  /\ UNCHANGED auxVars

\* :285-318, :144-147 the read returns the text: the linked session is pushed
ReadOk ==
  /\ pc = "read"
  /\ vault[reading.linkedFilePath].status = "file"
  /\ sessions' = Append(sessions,
       [parseSessionFile(reading.linkedFilePath, reading.sessionNumber,
                         vault[reading.linkedFilePath].lines)
          EXCEPT !.startLine = reading.lineNumber,
                 !.endLine = reading.lineNumber])
  /\ reading' = NoLink
  /\ pc' = "scan"
  /\ currentLineNumber' = currentLineNumber + 1
  /\ UNCHANGED <<doc, vault, currentSession, currentSessionContent,
                 sessionStartLine, campaign>>
  /\ UNCHANGED mergeVars
  /\ UNCHANGED auxVars

\* a read whose exception leaves parseSessionFile: the parse ends without a result
ReadThrowsAborts ==
  /\ pc = "read"
  /\ vault[reading.linkedFilePath].status = "unreadable"
  /\ reading' = NoLink
  /\ pc' = "done"
  /\ UNCHANGED <<doc, vault, currentLineNumber, currentSession,
                 currentSessionContent, sessionStartLine, sessions, campaign>>
  /\ UNCHANGED mergeVars
  /\ UNCHANGED auxVars

\* :319-322, :148-150 the read throws: parseSessionFile returns null
ReadThrows ==
  /\ pc = "read"
  /\ vault[reading.linkedFilePath].status = "unreadable"
  /\ reading' = NoLink
  /\ pc' = "scan"
  /\ currentLineNumber' = currentLineNumber + 1
  /\ UNCHANGED <<doc, vault, currentSession, currentSessionContent,
                 sessionStartLine, sessions, campaign>>
  /\ UNCHANGED mergeVars
  /\ UNCHANGED auxVars

\* :155-158 a line of the open inline session
CollectLine ==
  /\ Scanning
  /\ doc[currentLineNumber + 1].k # "session"
  /\ currentSession # NoSession
  /\ currentSessionContent' = Append(currentSessionContent, doc[currentLineNumber + 1])
  /\ currentLineNumber' = currentLineNumber + 1
  /\ UNCHANGED <<doc, vault, pc, currentSession, sessionStartLine, sessions,
                 reading, campaign>>
  /\ UNCHANGED mergeVars
  /\ UNCHANGED auxVars

\* :159-161 a line outside every session
SkipLine ==
  /\ Scanning
  /\ doc[currentLineNumber + 1].k # "session"
  /\ currentSession = NoSession
  /\ linkMatch = NoLink
  /\ currentLineNumber' = currentLineNumber + 1
  /\ UNCHANGED <<doc, vault, pc, currentSession, currentSessionContent,
                 sessionStartLine, sessions, reading, campaign>>
  /\ UNCHANGED mergeVars
  /\ UNCHANGED auxVars

\* :164-178 and :36-56 the loop has ended: the last inline session is saved,
\* the sessions are sorted, and the campaign object is built and returned
Finish ==
  /\ pc = "scan"
  /\ currentLineNumber >= Len(doc)
  /\ sessions' = saveSession(sessions, currentSession, currentSessionContent,
                             sessionStartLine, Len(doc) - 1)
  /\ campaign' = buildCampaign(doc, sortSessions(sessions'), CampaignPath)
  /\ pc' = "done"
  /\ UNCHANGED <<doc, vault, currentLineNumber, currentSession,
                 currentSessionContent, sessionStartLine, reading>>
  /\ UNCHANGED mergeVars
  /\ UNCHANGED auxVars

Next ==
  \/ SessionHeader
  \/ LinkUnresolved
  \/ LinkNotFile
  \/ ReadStart
  \/ ReadOk
  \/ ReadThrows
  \/ CollectLine
  \/ SkipLine
  \/ Finish

(***************************************************************************)
(* mergeNPCs / mergeLocations / mergePlayerCharacters step by step: one    *)
(* action per branch of the mention loop and per iteration of the tag loop *)
(***************************************************************************)
TagPool == {<<"f">>, <<"-", "f">>, <<"c">>, <<"k", "=", "1">>, <<"k", "=", "2">>}

TagLists == SeqsFromZero(TagPool, MaxTags)

\* the tags the model reads, as the text of the document writes them
InputTags(kind) ==
  LET letter == CASE kind = "npc" -> "N" [] kind = "location" -> "L" [] OTHER -> "PC"
  IN  {Tag(letter, <<"J">>, tl) : tl \in TagLists}
      \cup {Tag(letter, <<" ", "j">>, <<>>), Tag(letter, <<"S">>, <<<<" ", "f">>>>)}
      \cup (IF kind = "pc" THEN {} ELSE {Tag("#" \o letter, <<"J">>, <<>>)})

\* the mention collectAllTags makes of one tag of an element on line `lineNumber`
MentionOf(kind, tag, lineNumber) ==
  LET element == [type |-> "text", lineNumber |-> lineNumber, tags |-> <<tag>>]
      all == collectElement(NoTags, [number |-> 1], [number |-> "S1"], element,
                            CampaignPath)
  IN  CASE kind = "npc" -> all.npcs[1]
        [] kind = "location" -> all.locations[1]
        [] OTHER -> all.playerCharacters[1]

\* :565-567 the mention is the first of its identity: a copy of it is stored
MergeFirst ==
  /\ mphase = "idle"
  /\ count < MaxMentions
  /\ \E tag \in InputTags(mkind) :
       LET mention == MentionOf(mkind, tag, count) IN
       /\ ~mapHas(merged, mention.id)
       /\ npc' = mention
       /\ merged' = mapSet(merged, mention.id, mention)
  /\ before' = NoEntity
  /\ mphase' = "merged"
  /\ count' = count + 1
  /\ UNCHANGED <<mkind, ti>>
  /\ UNCHANGED parseVars
  /\ UNCHANGED auxVars

\* :548-549 the identity is known: the tag loop begins
MergeExisting ==
  /\ mphase = "idle"
  /\ count < MaxMentions
  /\ \E tag \in InputTags(mkind) :
       LET mention == MentionOf(mkind, tag, count) IN
       /\ mapHas(merged, mention.id)
       /\ npc' = mention
       /\ before' = mapGet(merged, mention.id)
  /\ ti' = 0
  /\ mphase' = "tags"
  /\ count' = count + 1
  /\ UNCHANGED <<mkind, merged>>
  /\ UNCHANGED parseVars
  /\ UNCHANGED auxVars

\* :550-563 one iteration of the tag loop
MergeTag ==
  /\ mphase = "tags"
  /\ ti < Len(npc.tags)
  /\ LET existing == mapGet(merged, npc.id)
     IN  merged' = mapSet(merged, npc.id,
                     [existing EXCEPT !.tags = mergeTag(existing.tags, npc.tags[ti + 1])])
  /\ ti' = ti + 1
  /\ UNCHANGED <<mkind, npc, mphase, before, count>>
  /\ UNCHANGED parseVars
  /\ UNCHANGED auxVars

\* :564 the tag loop has ended: the mention is recorded
MergeMentions ==
  /\ mphase = "tags"
  /\ ti >= Len(npc.tags)
  /\ LET existing == mapGet(merged, npc.id)
     IN  merged' = mapSet(merged, npc.id,
                     [existing EXCEPT !.mentions = pushMentions(existing.mentions, npc.mentions)])
  /\ mphase' = "merged"
  /\ UNCHANGED <<mkind, npc, ti, before, count>>
  /\ UNCHANGED parseVars
  /\ UNCHANGED auxVars

\* :547 the iteration ends: its locals go out of scope
MergeNext ==
  /\ mphase = "merged"
  /\ npc' = NoEntity
  /\ ti' = 0
  /\ before' = NoEntity
  /\ mphase' = "idle"
  /\ UNCHANGED <<mkind, merged, count>>
  /\ UNCHANGED parseVars
  /\ UNCHANGED auxVars

NextMerge ==
  \/ MergeFirst
  \/ MergeExisting
  \/ MergeTag
  \/ MergeMentions
  \/ MergeNext

\* no document is being parsed
ParserIdle ==
  /\ doc = <<BlankLine>>
  /\ vault = [p \in Paths |-> [status |-> "missing", lines |-> <<BlankLine>>]]
  /\ pc = "off"
  /\ currentLineNumber = 0
  /\ currentSession = NoSession
  /\ currentSessionContent = <<>>
  /\ sessionStartLine = 0
  /\ sessions = <<>>
  /\ reading = NoLink
  /\ campaign = NoCampaign

\* no document is being parsed and no view is open
ParseOff ==
  /\ ParserIdle
  /\ other = NoOther
  /\ view = NoView
  /\ workspace = NoWorkspace

InitMerge ==
  /\ ParseOff
  /\ block = NoBlock
  /\ mkind \in {"npc", "location", "pc"}
  /\ merged = <<>>
  /\ npc = NoEntity
  /\ ti = 0
  /\ mphase = "idle"
  /\ before = NoEntity
  /\ count = 0

SpecMerge == InitMerge /\ [][NextMerge]_vars

(***************************************************************************)
(* Inputs                                                                  *)
(***************************************************************************)
\* the body of a linked session document used where the claim is not about it
DefaultLinked == <<SceneLine("S1"), FenceLine, TextLine("action", <<>>), FenceLine>>

\* documents that exercise the session loop
SessionAlphabet ==
  {SessionLine(1), SessionLine(2), LinkLine(1, "a.md"), LinkLine(2, "b.md"),
   LinkLine(1, ""), TextLine("text", <<>>)}

\* documents that exercise the scene and fence loops
SceneAlphabet ==
  {SessionLine(1), SceneLine("S1"), FenceLine, TextLine("action", <<>>), BlankLine}

LinkedAlphabet == {SceneLine("S1"), FenceLine, TextLine("action", <<>>), BlankLine}

\* lines of notation that carry tags
TagLines ==
  {TextLine("text", <<Tag("#N", <<"S">>, <<>>)>>),
   TextLine("text", <<Tag("#L", <<"S">>, <<>>)>>),
   TextLine("action", <<Tag("N", <<"S">>, <<<<"f">>>>)>>),
   TextLine("action", <<Tag("N", <<" ", "s">>, <<<<"-", "f">>>>)>>),
   TextLine("meta_note", <<Tag("#N", <<"S">>, <<>>)>>),
   TextLine("meta_note", <<Tag("N", <<"S">>, <<<<"g">>>>), ThreadTag(<<"X">>, "Closed")>>),
   TextLine("text", <<Tag("L", <<"S">>, <<<<"f">>>>), Tag("PC", <<"J">>, <<<<"f">>>>)>>),
   TextLine("text", <<ThreadTag(<<"X">>, "Open"),
                      ProgressTag("Clock", <<"R">>, 3, 6, "space"),
                      ProgressTag("Track", <<"R">>, 2, 4, "space"),
                      ProgressTag("E", <<"R">>, 1, 8, "space"),
                      ProgressTag("Timer", <<"R">>, 5, 0, "space")>>),
   TextLine("text", <<ThreadTag(<<"X">>, "Closed"),
                      ProgressTag("Clock", <<"R">>, 4, 6, "pipe"),
                      ProgressTag("Track", <<"R">>, 3, 4, "pipe"),
                      ProgressTag("E", <<"R">>, 2, 8, "pipe"),
                      ProgressTag("Timer", <<"R">>, 3, 0, "pipe")>>)}

\* one scene with one fenced block holding the given lines
Fenced(codes) == <<SceneLine("S1"), FenceLine>> \o codes \o <<FenceLine>>

\* no merge loop is being observed
MergeOff ==
  /\ mkind = ""
  /\ merged = <<>>
  /\ npc = NoEntity
  /\ ti = 0
  /\ mphase = "off"
  /\ before = NoEntity
  /\ count = 0

InitLocals ==
  /\ MergeOff
  /\ other = NoOther
  /\ view = NoView
  /\ workspace = NoWorkspace
  /\ block = NoBlock
  /\ pc = "scan"
  /\ currentLineNumber = 0
  /\ currentSession = NoSession
  /\ currentSessionContent = <<>>
  /\ sessionStartLine = 0
  /\ sessions = <<>>
  /\ reading = NoLink
  /\ campaign = NoCampaign

InitSessions ==
  /\ doc \in SeqsUpTo(SessionAlphabet, MaxSessionLines)
  /\ \E st \in [Paths -> Statuses] :
       vault = [p \in Paths |-> [status |-> st[p], lines |-> DefaultLinked]]

InitScenes ==
  /\ doc \in SeqsUpTo(SceneAlphabet, MaxSceneLines)
  /\ vault = [p \in Paths |-> [status |-> "file", lines |-> DefaultLinked]]

InitLinked ==
  /\ doc = <<LinkLine(1, "a.md")>>
  /\ \E body \in SeqsUpTo(LinkedAlphabet, MaxSceneLines) :
       vault = [p \in Paths |-> [status |-> "file",
                                 lines |-> IF p = "a.md" THEN body ELSE DefaultLinked]]

\* the tagged lines in a fenced block of an inline or of a linked session
InitTags ==
  \E codes \in SeqsUpTo(TagLines, MaxTagLines) :
    \/ /\ doc = <<SessionLine(1)>> \o Fenced(codes)
       /\ vault = [p \in Paths |-> [status |-> "file", lines |-> DefaultLinked]]
    \/ /\ doc = <<LinkLine(1, "a.md")>>
       /\ vault = [p \in Paths |->
                     [status |-> "file",
                      lines |-> IF p = "a.md" THEN Fenced(codes) ELSE DefaultLinked]]

\* lines that name one NPC in two spellings, by tag and by back-reference
OrderLines ==
  {TextLine("text", <<Tag("#N", <<"S">>, <<>>)>>),
   TextLine("text", <<Tag("#N", <<"s">>, <<>>)>>),
   TextLine("action", <<Tag("N", <<"S">>, <<<<"f">>>>), ThreadTag(<<"X">>, "Open")>>)}

\* a linked session 2 found before an inline session 1 of two scenes
InitOrder ==
  \E c1, c2, c3 \in SeqsFromZero(OrderLines, MaxOrderLines) :
    /\ doc = <<LinkLine(2, "a.md"), SessionLine(1), SceneLine("S1"), FenceLine>>
               \o c1 \o <<FenceLine, SceneLine("S2"), FenceLine>> \o c2 \o <<FenceLine>>
    /\ vault = [p \in Paths |->
                  [status |-> "file",
                   lines |-> IF p = "a.md" THEN Fenced(c3) ELSE DefaultLinked]]

MaxTitleLines == 3

\* what the document begins with: nothing, a front-matter block (with a
\* title, an empty title, no title, a line that is no YAML), or a block that
\* is never closed
FrontMatters ==
  {<<>>,
   <<DelimLine, YamlLine("title", <<"T">>), DelimLine>>,
   <<DelimLine, YamlLine("other", <<"x">>), YamlLine("title", <<>>), DelimLine>>,
   <<DelimLine, YamlLine("other", <<"x">>), DelimLine>>,
   <<DelimLine, YamlLine("bad", <<"T">>), DelimLine>>,
   <<DelimLine, YamlLine("title", <<"T">>)>>}

TitleAlphabet ==
  {HeadingLine(<<"H">>), HeadingLine(<<"G", " ">>), HashLine, BlankLine,
   TextLine("text", <<>>), SessionLine(1)}

InitTitle ==
  /\ \E fm \in FrontMatters, body \in SeqsUpTo(TitleAlphabet, MaxTitleLines) :
       doc = fm \o body
  /\ vault = [p \in Paths |-> [status |-> "file", lines |-> DefaultLinked]]

MaxPreLines == 2

\* a fenced block of tagged lines before the first scene heading of an
\* inline session and of a linked document, which may have no scene at all
InitPreScene ==
  \E c1 \in SeqsUpTo(OrderLines, MaxPreLines), c2 \in SeqsFromZero(OrderLines, 1),
     scene \in BOOLEAN, linked \in BOOLEAN :
    LET lines == <<FenceLine>> \o c1 \o <<FenceLine>>
                 \o (IF scene THEN Fenced(c2) ELSE <<>>)
    IN  /\ doc = IF linked THEN <<LinkLine(1, "a.md")>> ELSE <<SessionLine(1)>> \o lines
        /\ vault = [p \in Paths |->
                      [status |-> "file",
                       lines |-> IF linked /\ p = "a.md" THEN lines ELSE DefaultLinked]]

Init ==
  /\ InitLocals
  /\ \/ InitPreScene
     \/ InitSessions
     \/ InitScenes
     \/ InitLinked
     \/ InitTags
     \/ InitOrder
     \/ InitTitle

Spec == Init /\ [][Next]_vars

\* linked documents that link to each other
CycleVault(st) ==
  [p \in Paths |->
     [status |-> st[p],
      lines |-> <<IF p = "a.md" THEN LinkLine(2, "b.md") ELSE LinkLine(1, "a.md")>>
                \o DefaultLinked]]

InitTerminates ==
  /\ InitLocals
  /\ doc \in SeqsUpTo(SessionAlphabet, MaxCycleLines)
  /\ \E st \in [Paths -> Statuses] : vault = CycleVault(st)

\* the loop of parseSessions is sequential code that keeps running, and every
\* read that was started returns or throws
SpecTerminates == InitTerminates /\ [][Next]_vars /\ WF_vars(Next)

(***************************************************************************)
(* A call of parseSceneContent(content, filePath, baseLineNumber)          *)
(***************************************************************************)
MaxContentLines == 6

MaxBase == 1

\* the lines of a scene: fences, notation of two types, blank lines
ContentAlphabet == {FenceLine, TextLine("action", <<>>), TextLine("text", <<>>), BlankLine}

ParseSceneContent ==
  /\ ~block.ran
  /\ block' = [block EXCEPT
       !.elements = parseSceneContent(block.content, block.startLine),
       !.ran = TRUE]
  /\ UNCHANGED parseVars
  /\ UNCHANGED mergeVars
  /\ UNCHANGED <<other, view, workspace>>

NextSceneContent == ParseSceneContent

InitSceneContent ==
  /\ ParseOff
  /\ MergeOff
  /\ \E content \in SeqsFromZero(ContentAlphabet, MaxContentLines),
        baseLineNumber \in 0..MaxBase :
       block = [content |-> content, startLine |-> baseLineNumber,
                elements |-> <<>>, ran |-> FALSE]

SpecSceneContent == InitSceneContent /\ [][NextSceneContent]_vars

(***************************************************************************)
(* Two calls of parseCampaignFile on one parser: the second starts when    *)
(* the first awaits a read or has returned, and each runs on when the      *)
(* other awaits or has returned                                            *)
(***************************************************************************)
MaxTwoLines == 2

\* the locals of the call that is running
Locals ==
  [doc |-> doc, pc |-> pc, currentLineNumber |-> currentLineNumber,
   currentSession |-> currentSession,
   currentSessionContent |-> currentSessionContent,
   sessionStartLine |-> sessionStartLine, sessions |-> sessions,
   reading |-> reading, campaign |-> campaign]

\* a parser that keeps `sessions` in a field of the instance
SwitchSharedSessions ==
  /\ pc \in {"read", "done"}
  /\ other.pc \in {"scan", "read"}
  /\ other' = Locals
  /\ doc' = other.doc
  /\ pc' = other.pc
  /\ currentLineNumber' = other.currentLineNumber
  /\ currentSession' = other.currentSession
  /\ currentSessionContent' = other.currentSessionContent
  /\ sessionStartLine' = other.sessionStartLine
  /\ reading' = other.reading
  /\ campaign' = other.campaign
  /\ UNCHANGED <<vault, sessions, block, view, workspace>>
  /\ UNCHANGED mergeVars

\* the running call awaits (:143, :285) or has returned, and the event loop
\* runs the other call, which has its own locals
Switch ==
  /\ pc \in {"read", "done"}
  /\ other.pc \in {"scan", "read"}
  /\ other' = Locals
  /\ doc' = other.doc
  /\ pc' = other.pc
  /\ currentLineNumber' = other.currentLineNumber
  /\ currentSession' = other.currentSession
  /\ currentSessionContent' = other.currentSessionContent
  /\ sessionStartLine' = other.sessionStartLine
  /\ sessions' = other.sessions
  /\ reading' = other.reading
  /\ campaign' = other.campaign
  /\ UNCHANGED <<vault, block, view, workspace>>
  /\ UNCHANGED mergeVars

NextTwo ==
  \/ Next
  \/ Switch

\* the documents of the second call: a link and a tagged inline session, two links
TwoDocs ==
  {<<LinkLine(2, "b.md"), SessionLine(1)>>
     \o Fenced(<<TextLine("action", <<Tag("N", <<"S">>, <<<<"f">>>>)>>)>>),
   <<LinkLine(1, "a.md"), LinkLine(2, "b.md")>>}

TwoVault(st) ==
  [p \in Paths |->
    [status |-> st[p],
     lines |-> IF p = "a.md"
               THEN Fenced(<<TextLine("action", <<Tag("N", <<"J">>, <<<<"f">>>>)>>)>>)
               ELSE Fenced(<<TextLine("text", <<ThreadTag(<<"X">>, "Open")>>)>>)]]

InitTwo ==
  /\ MergeOff
  /\ block = NoBlock
  /\ view = NoView
  /\ workspace = NoWorkspace
  /\ pc = "scan"
  /\ currentLineNumber = 0
  /\ currentSession = NoSession
  /\ currentSessionContent = <<>>
  /\ sessionStartLine = 0
  /\ sessions = <<>>
  /\ reading = NoLink
  /\ campaign = NoCampaign
  /\ doc \in SeqsUpTo(SessionAlphabet, MaxTwoLines)
  /\ \E st \in [Paths -> Statuses] : vault = TwoVault(st)
  /\ \E d \in TwoDocs :
       other = [doc |-> d, pc |-> "scan", currentLineNumber |-> 0,
                currentSession |-> NoSession, currentSessionContent |-> <<>>,
                sessionStartLine |-> 0, sessions |-> <<>>,
                reading |-> NoLink, campaign |-> NoCampaign]

SpecTwo == InitTwo /\ [][NextTwo]_vars

(***************************************************************************)
(* A call of CodeBlockParser.parseCodeBlock(content, startLine)            *)
(***************************************************************************)
MaxBlockLines == 2

MaxStart == 2

StrongHit == <<"S", "t", "r", "o", "n", "g", " ", "h", "i", "t">>

Failed == <<"F", "a", "i", "l", "e", "d">>

Five == <<"5">>

Success == <<"S", "u", "c", "c", "e", "s", "s">>

Miss == <<"M", "i", "s", "s">>

\* part of a keyword, and no keyword
Hit == <<"h", "i", "t">>

Outcomes == {StrongHit, Failed, Five, Success, Miss, Hit}

BlockAlphabet == {BlankLine, TextLine("action", <<>>)} \cup {RollLine(o) : o \in Outcomes}

ParseCodeBlock ==
  /\ ~block.ran
  /\ block' = [block EXCEPT
       !.elements = parseCodeBlock(block.content, block.startLine),
       !.ran = TRUE]
  /\ UNCHANGED parseVars
  /\ UNCHANGED mergeVars
  /\ UNCHANGED <<other, view, workspace>>

NextCodeBlock == ParseCodeBlock

InitCodeBlock ==
  /\ ParseOff
  /\ MergeOff
  /\ \E content \in SeqsFromZero(BlockAlphabet, MaxBlockLines), startLine \in 0..MaxStart :
       block = [content |-> content, startLine |-> startLine,
                elements |-> <<>>, ran |-> FALSE]

SpecCodeBlock == InitCodeBlock /\ [][NextCodeBlock]_vars

(***************************************************************************)
(* DashboardView: the list of element cards                                *)
(***************************************************************************)
MaxQueryLen == 1

RECURSIVE flat(_)
flat(ss) == IF ss = <<>> THEN <<>> ELSE Head(ss) \o flat(Tail(ss))

\* Array.from(map.values())
mapValues(map) == [i \in 1..Len(map) |-> map[i].value]

\* :852-859
createLocation(session, scene, element, c) ==
  Loc(IF session.linkedFile # "" THEN session.linkedFile ELSE c.file,
      element.lineNumber, session.number, scene.number)

\* :861-877 the elements of the given types with their session and scene
collectElementsByTypes(c, types) ==
  flat([i \in 1..Len(c.sessions) |->
    flat([j \in 1..Len(c.sessions[i].scenes) |->
      LET es == c.sessions[i].scenes[j].elements
      IN  flat([k \in 1..Len(es) |->
            IF es[k].type \in types
            THEN <<[element |-> es[k], session |-> c.sessions[i],
                    scene |-> c.sessions[i].scenes[j]]>>
            ELSE <<>>])])])

\* :505-523
getMetaNotes(c) ==
  LET found == collectElementsByTypes(c, {"meta_note"})
  IN  [i \in 1..Len(found) |->
        [note |-> found[i].element,
         location |-> createLocation(found[i].session, found[i].scene,
                                     found[i].element, c),
         session |-> found[i].session.number,
         scene |-> found[i].scene.number]]

\* :525-560
getRandomEvents(c, currentElementType) ==
  LET found == collectElementsByTypes(c, {"table_lookup", "generator"})
      wanted(e) ==
        \/ e.type = "table_lookup" /\ currentElementType \in {"All", "TableLookup"}
        \/ e.type = "generator" /\ currentElementType \in {"All", "Generator"}
  IN  flat([i \in 1..Len(found) |->
        IF wanted(found[i].element)
        THEN <<[type |-> IF found[i].element.type = "table_lookup"
                         THEN "table" ELSE "generator",
                data |-> found[i].element,
                location |-> createLocation(found[i].session, found[i].scene,
                                            found[i].element, c),
                eventType |-> IF found[i].element.type = "table_lookup"
                              THEN "TableLookup" ELSE "Generator",
                session |-> found[i].session.number,
                scene |-> found[i].scene.number]>>
        ELSE <<>>])

\* :501-503
wrapElements(rawElements, type) ==
  [i \in 1..Len(rawElements) |-> [elementType |-> type, data |-> rawElements[i]]]

\* :575-591 getTimestamp reads session, mentions and locations of the value
\* it is given, which is the card {elementType, data}: a field that the
\* value does not have reads as undefined
getTimestamp(element) ==
  IF "session" \in DOMAIN element THEN 0 - element.session
  ELSE IF "mentions" \in DOMAIN element /\ Len(element.mentions) > 0
  THEN 0 - element.mentions[Len(element.mentions)].session
  ELSE IF "locations" \in DOMAIN element /\ Len(element.locations) > 0
  THEN 0 - Len(element.locations)
  ELSE 0

\* Array.prototype.sort with sortByLastSeen (:574-594): stable
RECURSIVE insertByLastSeen(_, _)
insertByLastSeen(sorted, e) ==
  IF sorted = <<>> THEN <<e>>
  ELSE IF getTimestamp(sorted[Len(sorted)]) <= getTimestamp(e) THEN Append(sorted, e)
  ELSE Append(insertByLastSeen(SubSeq(sorted, 1, Len(sorted) - 1), e),
              sorted[Len(sorted)])

RECURSIVE sortByLastSeen(_)
sortByLastSeen(elements) ==
  IF elements = <<>> THEN <<>>
  ELSE insertByLastSeen(sortByLastSeen(SubSeq(elements, 1, Len(elements) - 1)),
                        elements[Len(elements)])

\* :562-572 name, type and tags are read from the value it is given; a
\* field that the value does not have reads as undefined and gives '' or []
elementMatchesSearch(element, query) ==
  LET name == IF "name" \in DOMAIN element THEN element.name
              ELSE IF "note" \in DOMAIN element /\ "content" \in DOMAIN element.note
              THEN element.note.content
              ELSE IF "data" \in DOMAIN element /\ "result" \in DOMAIN element.data
              THEN element.data.result
              ELSE <<>>
      type == IF "type" \in DOMAIN element THEN element.type ELSE <<>>
      tags == IF "tags" \in DOMAIN element THEN element.tags ELSE <<>>
  IN  \/ includes(toLowerCase(name), query)
      \/ includes(toLowerCase(type), query)
      \/ \E i \in 1..Len(tags) : includes(toLowerCase(tags[i]), query)

\* :480-499
getAllElements(c) ==
  sortByLastSeen(
    wrapElements(mapValues(c.playerCharacters), "PC")
    \o wrapElements(mapValues(c.npcs), "NPC")
    \o wrapElements(mapValues(c.locations), "Location")
    \o wrapElements(mapValues(c.threads), "Thread")
    \o wrapElements(mapValues(c.clocks), "Clock")
    \o wrapElements(mapValues(c.tracks), "Track")
    \o wrapElements(mapValues(c.timers), "Timer")
    \o wrapElements(mapValues(c.events), "Event")
    \o wrapElements(mapValues(c.references), "Reference")
    \o wrapElements(getMetaNotes(c), "MetaNote")
    \o LET events == getRandomEvents(c, "All")
       IN  [i \in 1..Len(events) |->
             [elementType |-> events[i].eventType, data |-> events[i]]])

\* :425-478
getFilteredElements(c, currentElementType, searchQuery) ==
  IF c = NoCampaign THEN <<>>
  ELSE IF currentElementType = "All" THEN getAllElements(c)
  ELSE
    LET rawElements ==
          CASE currentElementType = "PC" -> mapValues(c.playerCharacters)
            [] currentElementType = "NPC" -> mapValues(c.npcs)
            [] currentElementType = "Location" -> mapValues(c.locations)
            [] currentElementType = "Thread" -> mapValues(c.threads)
            [] currentElementType = "Clock" -> mapValues(c.clocks)
            [] currentElementType = "Track" -> mapValues(c.tracks)
            [] currentElementType = "Timer" -> mapValues(c.timers)
            [] currentElementType = "Event" -> mapValues(c.events)
            [] currentElementType = "MetaNote" -> getMetaNotes(c)
            [] currentElementType = "Reference" -> mapValues(c.references)
            [] OTHER -> getRandomEvents(c, currentElementType)
        elements == wrapElements(rawElements, currentElementType)
    IN  IF searchQuery # <<>>
        THEN SelectSeq(elements,
                       LAMBDA e : elementMatchesSearch(e, toLowerCase(searchQuery)))
        ELSE sortByLastSeen(elements)

(***************************************************************************)
(* Properties                                                              *)
(***************************************************************************)
Numbers(list) == [i \in 1..Len(list) |-> list[i].number]

RECURSIVE Flatten(_)
Flatten(ss) == IF ss = <<>> THEN <<>> ELSE Head(ss) \o Flatten(Tail(ss))

\* the document that holds the lines of a session
SourceOf(session) ==
  IF session.linkedFile # "" THEN vault[session.linkedFile].lines ELSE doc

\* the elements of the sessions, in the order of the list
ElementsOf(list) ==
  Flatten([i \in 1..Len(list) |->
            Flatten([j \in 1..Len(list[i].scenes) |-> list[i].scenes[j].elements])])

\* the tags of the elements that are not meta notes, in scan order
TagsInScanOrder(list) ==
  LET es == ElementsOf(list)
  IN  Flatten([i \in 1..Len(es) |-> IF es[i].type = "meta_note" THEN <<>> ELSE es[i].tags])

\* the identity key of a tag: kind prefix, then the trimmed lower-cased name
IdentityOf(t) ==
  <<CASE t.kind \in {"N", "#N"} -> "npc:"
      [] t.kind \in {"L", "#L"} -> "location:"
      [] t.kind = "PC" -> "pc:"
      [] t.kind = "Thread" -> "thread:"
      [] t.kind = "Clock" -> "clock:"
      [] t.kind = "Track" -> "track:"
      [] t.kind = "Timer" -> "timer:"
      [] OTHER -> "event:">> \o toLowerCase(trim(t.name))

\* the positions in `tags` of the tags of the given kinds with identity `key`
Occurrences(tags, kinds, key) ==
  {i \in 1..Len(tags) : tags[i].kind \in kinds /\ IdentityOf(tags[i]) = key}

Last(S) == CHOOSE i \in S : \A j \in S : j <= i

\* C1: an inline "## Session 2" followed on a later line by a link
\* [[Session 1]] that resolves to a readable document gives the sessions
\* numbered [1, 2].
C1_LinkedSessionAfterInline ==
  pc = "done" =>
    \A i, j \in 1..Len(doc) :
      ( /\ i < j
        /\ doc[i] = SessionLine(2)
        /\ doc[j].k = "link" /\ doc[j].n = 1 /\ doc[j].to # ""
        /\ vault[doc[j].to].status = "file"
        /\ \A k \in 1..Len(doc) \ {i, j} : doc[k].k \notin {"session", "link"} )
      => Numbers(campaign.sessions) = <<1, 2>>

\* C2: the returned sessions are in non-decreasing order of number, they are
\* the sessions that were pushed, and the sessions of one number are in the
\* order in which they were pushed.
C2_SessionsSortedStable ==
  pc = "done" =>
    /\ \A i, j \in 1..Len(campaign.sessions) :
         i < j => campaign.sessions[i].number <= campaign.sessions[j].number
    /\ Len(campaign.sessions) = Len(sessions)
    /\ \A n \in Range(Numbers(sessions)) :
         SelectSeq(campaign.sessions, LAMBDA x : x.number = n)
           = SelectSeq(sessions, LAMBDA x : x.number = n)

\* a linked session 2 was pushed before two different sessions numbered 1
C2_Witness ==
  /\ pc = "done"
  /\ Len(campaign.sessions) >= 3
  /\ sessions[1].number > sessions[2].number
  /\ \E i \in 1..(Len(campaign.sessions) - 1) :
       /\ campaign.sessions[i].number = campaign.sessions[i + 1].number
       /\ campaign.sessions[i].linkedFile # campaign.sessions[i + 1].linkedFile

\* C3: the lineNumber of every element is the 0-based index, in the document
\* that holds the session, of the line the element was made from.
C3_ElementLineNumberIsItsLine ==
  pc = "done" =>
    \A i \in 1..Len(campaign.sessions) :
      LET session == campaign.sessions[i]
          source == SourceOf(session)
      IN  \A j \in 1..Len(session.scenes) :
            \A e \in Range(session.scenes[j].elements) :
              /\ e.lineNumber + 1 \in 1..Len(source)
              /\ source[e.lineNumber + 1].k \in {"line", "link"}
              /\ classify(source[e.lineNumber + 1], e.lineNumber) = e

\* the text of a tag before its first "=", the whole tag when it has none
KeyOfTag(t) ==
  LET P == {i \in 1..Len(t) : t[i] = "="}
  IN  IF P = {} THEN t ELSE SubSeq(t, 1, (CHOOSE i \in P : \A j \in P : i <= j) - 1)

IsRemoval(t) == Len(t) >= 1 /\ t[1] = "-"

IsKeyed(t) == ~IsRemoval(t) /\ \E i \in 1..Len(t) : t[i] = "="

IsPlain(t) == ~IsRemoval(t) /\ ~IsKeyed(t)

\* the tag loop is about to handle a tag of a later mention
AtTag == mphase = "tags" /\ ti < Len(npc.tags)

\* a later mention has been merged into its entity
LaterMerged == mphase = "merged" /\ before # NoEntity

\* C4: a tag "-t" of a later mention removes every tag equal to t, leaves
\* the other tags as they are, and is not itself added.
C4_RemovalTagRemoves ==
  [][ (AtTag /\ IsRemoval(npc.tags[ti + 1])) =>
        LET t == Tail(npc.tags[ti + 1])
            old == mapGet(merged, npc.id).tags
            new == mapGet(merged', npc.id).tags
        IN  /\ t \notin Range(new)
            /\ new = SelectSeq(old, LAMBDA x : x # t)
            /\ npc.tags[ti + 1] \in Range(new) => npc.tags[ti + 1] \in Range(old) ]_vars

\* [..|f] then [..|-f|c] leaves the tags [c]
C4_Witness ==
  /\ LaterMerged
  /\ before.tags = <<<<"f">>>>
  /\ npc.tags = <<<<"-", "f">>, <<"c">>>>
  /\ mapGet(merged, npc.id).tags = <<<<"c">>>>

\* C5: a later mention whose tags are all plain and all present already
\* leaves the tags as they were and adds its mention.
C5_PresentPlainTagsChangeNothing ==
  ( /\ LaterMerged
    /\ \A i \in 1..Len(npc.tags) :
         IsPlain(npc.tags[i]) /\ npc.tags[i] \in Range(before.tags) )
  => /\ mapGet(merged, npc.id).tags = before.tags
     /\ mapGet(merged, npc.id).mentions = before.mentions \o npc.mentions
     /\ Len(mapGet(merged, npc.id).mentions) = Len(before.mentions) + 1

\* the mention [..|f] merged twice: tags [f], two mentions
C5_Witness ==
  /\ LaterMerged
  /\ npc.tags = <<<<"f">>>>
  /\ before.tags = <<<<"f">>>>
  /\ Len(before.mentions) = 1
  /\ before.name = npc.name
  /\ mapGet(merged, npc.id).tags = <<<<"f">>>>
  /\ Len(mapGet(merged, npc.id).mentions) = 2

\* C6: a keyed tag key=value of a later mention becomes the last tag, is
\* then the only tag with its key, and the tags with other keys stay as they
\* were, in their order.
C6_KeyedTagReplaces ==
  [][ (AtTag /\ IsKeyed(npc.tags[ti + 1])) =>
        LET tag == npc.tags[ti + 1]
            old == mapGet(merged, npc.id).tags
            new == mapGet(merged', npc.id).tags
        IN  /\ new # <<>>
            /\ new[Len(new)] = tag
            /\ Cardinality({i \in 1..Len(new) : KeyOfTag(new[i]) = KeyOfTag(tag)}) = 1
            /\ SelectSeq(new, LAMBDA x : KeyOfTag(x) # KeyOfTag(tag))
                 = SelectSeq(old, LAMBDA x : KeyOfTag(x) # KeyOfTag(tag)) ]_vars

\* [..|k=1|f] then [..|k=2] leaves the tags [f, k=2]
C6_Witness ==
  /\ LaterMerged
  /\ before.tags = <<<<"k", "=", "1">>, <<"f">>>>
  /\ npc.tags = <<<<"k", "=", "2">>>>
  /\ mapGet(merged, npc.id).tags = <<<<"f">>, <<"k", "=", "2">>>>

\* C7: for every NPC, Location, PlayerCharacter and Thread identity the
\* entity has one mention per tag collected for the identity, back-references
\* included for NPC and Location, and every collected identity has an entity.
C7_OneMentionPerTag ==
  pc = "done" =>
    LET tags == TagsInScanOrder(campaign.sessions)
        Counted(map, kinds) ==
          /\ \A i \in 1..Len(map) :
               Len(map[i].value.mentions)
                 = Cardinality(Occurrences(tags, kinds, map[i].key))
          /\ \A i \in 1..Len(tags) :
               tags[i].kind \in kinds => mapHas(map, IdentityOf(tags[i]))
    IN  /\ Counted(campaign.npcs, {"N", "#N"})
        /\ Counted(campaign.locations, {"L", "#L"})
        /\ Counted(campaign.playerCharacters, {"PC"})
        /\ Counted(campaign.threads, {"Thread"})

\* an NPC tagged, then untagged with a removal, then back-referenced
C7_Witness ==
  /\ pc = "done"
  /\ \E i \in 1..Len(campaign.npcs) :
       /\ Len(campaign.npcs[i].value.mentions) = 3
       /\ campaign.npcs[i].value.tags = <<>>
  /\ LET tags == TagsInScanOrder(campaign.sessions)
     IN  /\ Len(tags) = 3
         /\ tags[1].kind = "N" /\ tags[1].tags = <<<<"f">>>>
         /\ tags[2].kind = "N" /\ tags[2].tags = <<<<"-", "f">>>>
         /\ tags[3].kind = "#N"

\* C8: the state of a thread is the state of the last mention of its
\* identity in processing order, and the thread has one mention per tag.
C8_ThreadStateIsLatest ==
  pc = "done" =>
    LET tags == TagsInScanOrder(campaign.sessions)
    IN  \A i \in 1..Len(campaign.threads) :
          LET occ == Occurrences(tags, {"Thread"}, campaign.threads[i].key)
          IN  /\ occ # {}
              /\ campaign.threads[i].value.state = tags[Last(occ)].state
              /\ Len(campaign.threads[i].value.mentions) = Cardinality(occ)

\* [Thread:X|Open] then [Thread:X|Closed]
C8_Witness ==
  /\ pc = "done"
  /\ LET tags == TagsInScanOrder(campaign.sessions)
         occ == Occurrences(tags, {"Thread"}, <<"thread:", "x">>)
     IN  /\ Cardinality(occ) = 2
         /\ \A i \in occ : tags[i].state = IF i = Last(occ) THEN "Closed" ELSE "Open"
  /\ mapHas(campaign.threads, <<"thread:", "x">>)
  /\ mapGet(campaign.threads, <<"thread:", "x">>).state = "Closed"
  /\ Len(mapGet(campaign.threads, <<"thread:", "x">>).mentions) = 2

\* C9: current and total of a Clock, Track or Event are those of the last
\* mention of its identity, whichever of the two numeric forms the mentions use.
C9_ProgressIsLatest ==
  pc = "done" =>
    LET tags == TagsInScanOrder(campaign.sessions)
        Latest(map, kind) ==
          \A i \in 1..Len(map) :
            LET occ == Occurrences(tags, {kind}, map[i].key)
            IN  /\ occ # {}
                /\ map[i].value.current = tags[Last(occ)].current
                /\ map[i].value.total = tags[Last(occ)].total
    IN  /\ Latest(campaign.clocks, "Clock")
        /\ Latest(campaign.tracks, "Track")
        /\ Latest(campaign.events, "E")

\* [Clock:R 3/6] then [Clock:R|4/6]
C9_Witness ==
  /\ pc = "done"
  /\ LET tags == TagsInScanOrder(campaign.sessions)
         clocks == SelectSeq(tags, LAMBDA t : t.kind = "Clock")
     IN  clocks = <<ProgressTag("Clock", <<"R">>, 3, 6, "space"),
                    ProgressTag("Clock", <<"R">>, 4, 6, "pipe")>>
  /\ mapHas(campaign.clocks, <<"clock:", "r">>)
  /\ mapGet(campaign.clocks, <<"clock:", "r">>).current = 4
  /\ mapGet(campaign.clocks, <<"clock:", "r">>).total = 6

\* the document has one tag only, a back-reference of the given kind, and it
\* is in a line of a fenced block of a scene
OnlyTagIsReference(kind, allowMeta) ==
  LET es == ElementsOf(campaign.sessions)
      tagged == {i \in 1..Len(es) : es[i].tags # <<>>}
  IN  /\ Cardinality(tagged) = 1
      /\ \A i \in tagged :
           /\ Len(es[i].tags) = 1
           /\ es[i].tags[1].kind = kind
           /\ trim(es[i].tags[1].name) # <<>>
           /\ allowMeta \/ es[i].type # "meta_note"

TheOnlyTag == Flatten([i \in 1..Len(ElementsOf(campaign.sessions)) |->
                         ElementsOf(campaign.sessions)[i].tags])[1]

\* the map holds the identity of the only tag, with no tags and one mention
ReferenceOnlyEntity(map) ==
  /\ mapHas(map, IdentityOf(TheOnlyTag))
  /\ mapGet(map, IdentityOf(TheOnlyTag)).tags = <<>>
  /\ Len(mapGet(map, IdentityOf(TheOnlyTag)).mentions) = 1

Headers == {i \in 1..Len(doc) : doc[i].k = "session"}

\* the first header after line i, or the line after the document
NextHeader(i) ==
  LET later == {j \in Headers : j > i}
  IN  IF later = {} THEN Len(doc) + 1 ELSE CHOOSE j \in later : \A k \in later : j <= k

\* the link lines the loop treats as links: those before the first header
ProcessedLinks == {i \in 1..Len(doc) : doc[i].k = "link" /\ i < NextHeader(0)}

\* the link does not resolve, resolves to no file, or its read throws
LinkFails(i) == doc[i].to = "" \/ vault[doc[i].to].status # "file"

\* the session of the header on line i (1-based) of the document
InlineSessionAt(i) ==
  [number |-> doc[i].n,
   scenes |-> parseScenes(SubSeq(doc, i + 1, NextHeader(i) - 1), i - 1),
   startLine |-> i - 1,
   endLine |-> NextHeader(i) - 2,
   linkedFile |-> ""]

\* the session of the readable link on line i (1-based) of the document
LinkedSessionAt(i) ==
  [number |-> doc[i].n,
   scenes |-> parseScenes(vault[doc[i].to].lines, 0),
   startLine |-> i - 1,
   endLine |-> i - 1,
   linkedFile |-> doc[i].to]

\* C11: when a link fails (unresolved, no file, read throws) the parse still
\* ends with a result, the link gives no session, and the result holds every
\* inline session and every session of a link that did not fail, as they are
\* without the failure.
C11_FailedLinkOnlySkipsItself ==
  (pc = "done" /\ \E i \in 1..Len(doc) : doc[i].k = "link" /\ LinkFails(i)) =>
    /\ campaign # NoCampaign
    /\ Range(campaign.sessions)
         = {InlineSessionAt(i) : i \in Headers}
           \cup {LinkedSessionAt(i) : i \in {j \in ProcessedLinks : ~LinkFails(j)}}
    /\ Len(campaign.sessions)
         = Cardinality(Headers) + Cardinality({j \in ProcessedLinks : ~LinkFails(j)})
    /\ \A i \in 1..Len(doc) :
         (doc[i].k = "link" /\ LinkFails(i)) =>
           \A x \in Range(campaign.sessions) : ~(x.linkedFile # "" /\ x.startLine = i - 1)

\* a link whose read throws, then a link that is read, then an inline session
C11_Witness ==
  /\ pc = "done"
  /\ Len(doc) >= 3
  /\ doc[1].k = "link" /\ doc[1].to # "" /\ vault[doc[1].to].status = "unreadable"
  /\ doc[2].k = "link" /\ ~LinkFails(2)
  /\ doc[3].k = "session"
  /\ Len(campaign.sessions) = 2
  /\ \E x \in Range(campaign.sessions) : x.linkedFile = doc[2].to


\* C12: every parse ends and returns a Campaign, whatever the document and
\* whatever each link resolution and read gives; a read is only ever started
\* for a link of the campaign document itself, never for a link found in a
\* linked document.
C12_TerminatesWithCampaign ==
  /\ <>(pc = "done" /\ campaign # NoCampaign)
  /\ [](pc = "read" =>
          /\ reading.lineNumber + 1 \in 1..Len(doc)
          /\ doc[reading.lineNumber + 1].k = "link"
          /\ doc[reading.lineNumber + 1].to = reading.linkedFilePath)
  /\ [](pc = "done" =>
          \A x \in Range(campaign.sessions) :
            x.linkedFile = "" \/ \E i \in ProcessedLinks : doc[i].to = x.linkedFile)

\* the campaign links a.md only; a.md and b.md are readable and link to each
\* other; the parse has ended with the session of a.md alone
C12_Witness ==
  /\ pc = "done"
  /\ doc = <<LinkLine(1, "a.md")>>
  /\ vault["a.md"].status = "file" /\ vault["b.md"].status = "file"
  /\ \E i \in 1..Len(vault["a.md"].lines) :
       vault["a.md"].lines[i].k = "link" /\ vault["a.md"].lines[i].to = "b.md"
  /\ \E i \in 1..Len(vault["b.md"].lines) :
       vault["b.md"].lines[i].k = "link" /\ vault["b.md"].lines[i].to = "a.md"
  /\ Len(campaign.sessions) = 1
  /\ campaign.sessions[1].linkedFile = "a.md"


\* the path of the document that holds the lines of a session
FileOf(session) == IF session.linkedFile # "" THEN session.linkedFile ELSE campaign.file

\* the sessions in which a tagged element of the scene and line of the
\* location is found
SessionsOfLocation(m) ==
  {x \in Range(campaign.sessions) :
     /\ x.number = m.session
     /\ \E j \in 1..Len(x.scenes) :
          /\ x.scenes[j].number = m.scene
          /\ \E e \in Range(x.scenes[j].elements) :
               e.lineNumber = m.lineNumber /\ e.tags # <<>>}

\* the mentions of every NPC, Location, PlayerCharacter, Thread and Reference
AllMentions ==
  LET MentionsIn(map) == UNION {Range(map[i].value.mentions) : i \in 1..Len(map)}
  IN  MentionsIn(campaign.npcs) \cup MentionsIn(campaign.locations)
        \cup MentionsIn(campaign.playerCharacters) \cup MentionsIn(campaign.threads)
        \cup MentionsIn(campaign.references)

\* C13: the file of every mention is the path of the document whose text
\* holds the tag: the campaign file for an inline session, the linked
\* document for a linked session.
C13_MentionFileIsItsDocument ==
  pc = "done" =>
    \A m \in AllMentions :
      /\ SessionsOfLocation(m) # {}
      /\ m.file \in {FileOf(x) : x \in SessionsOfLocation(m)}


\* C14: the mentions of one kind whose names differ only in letter case or
\* in surrounding whitespace are in one entry: every mapping has as many
\* entries as there are identities among the tags of its kind, the references
\* mapping as many as there are identities among the back-references.
C14_OneEntryPerIdentity ==
  pc = "done" =>
    LET tags == TagsInScanOrder(campaign.sessions)
        Identities(kinds) ==
          {IdentityOf(tags[i]) : i \in {j \in 1..Len(tags) : tags[j].kind \in kinds}}
    IN  /\ Len(campaign.npcs) = Cardinality(Identities({"N", "#N"}))
        /\ Len(campaign.locations) = Cardinality(Identities({"L", "#L"}))
        /\ Len(campaign.playerCharacters) = Cardinality(Identities({"PC"}))
        /\ Len(campaign.threads) = Cardinality(Identities({"Thread"}))
        /\ Len(campaign.references) = Cardinality(Identities({"#N", "#L"}))


\* the tags of the scanned elements in scan order, each with the Location of
\* its element and the positions of its session and scene
ScanOrder(list) ==
  Flatten([i \in 1..Len(list) |->
    Flatten([j \in 1..Len(list[i].scenes) |->
      Flatten([k \in 1..Len(list[i].scenes[j].elements) |->
        LET e == list[i].scenes[j].elements[k]
        IN  IF e.type = "meta_note" THEN <<>>
            ELSE [n \in 1..Len(e.tags) |->
                    [tag |-> e.tags[n],
                     loc |-> Loc(campaign.file, e.lineNumber, list[i].number,
                                 list[i].scenes[j].number),
                     s |-> i, c |-> j]]])])])

\* the part of the scan that mentions the identity `key` by a tag of `kinds`
ScanOf(kinds, key) ==
  SelectSeq(ScanOrder(campaign.sessions),
            LAMBDA o : o.tag.kind \in kinds /\ IdentityOf(o.tag) = key)

\* session number, then scene position, then line number
InDocumentOrder(occ) ==
  \A k, l \in 1..Len(occ) :
    k < l =>
      /\ occ[k].loc.session <= occ[l].loc.session
      /\ occ[k].s <= occ[l].s
      /\ occ[k].s = occ[l].s => occ[k].c <= occ[l].c
      /\ (occ[k].s = occ[l].s /\ occ[k].c = occ[l].c)
           => occ[k].loc.lineNumber <= occ[l].loc.lineNumber

\* the kind letters behind the key of a reference
ReferenceKinds(key) == IF key[1] = "npc:" THEN {"#N"} ELSE {"#L"}

C16_FirstMentionIsFirst ==
  pc = "done" =>
    LET First(map, kinds) ==
          \A i \in 1..Len(map) :
            /\ ScanOf(kinds, map[i].key) # <<>>
            /\ map[i].value.firstMention = ScanOf(kinds, map[i].key)[1].loc
            /\ map[i].value.firstMention = map[i].value.mentions[1]
    IN  /\ First(campaign.npcs, {"N", "#N"})
        /\ First(campaign.locations, {"L", "#L"})
        /\ First(campaign.playerCharacters, {"PC"})
        /\ First(campaign.threads, {"Thread"})
        /\ \A i \in 1..Len(campaign.references) :
             LET occ == SelectSeq(ScanOrder(campaign.sessions),
                          LAMBDA o : /\ o.tag.kind \in ReferenceKinds(campaign.references[i].key)
                                     /\ trim(o.tag.name) = Tail(campaign.references[i].key))
             IN  /\ occ # <<>>
                 /\ campaign.references[i].value.firstMention = occ[1].loc
                 /\ campaign.references[i].value.firstMention
                      = campaign.references[i].value.mentions[1]

\* an NPC and a Reference, each mentioned again on a later line
C16_Witness ==
  /\ pc = "done"
  /\ \E i \in 1..Len(campaign.npcs) :
       /\ Len(campaign.npcs[i].value.mentions) >= 2
       /\ campaign.npcs[i].value.mentions[2] # campaign.npcs[i].value.firstMention
       /\ campaign.npcs[i].value.mentions[1] = campaign.npcs[i].value.firstMention
  /\ \E i \in 1..Len(campaign.references) :
       /\ Len(campaign.references[i].value.mentions) >= 2
       /\ campaign.references[i].value.mentions[2] # campaign.references[i].value.firstMention
       /\ campaign.references[i].value.mentions[1] = campaign.references[i].value.firstMention


\* C18: a read is started only while no read is pending, for the link on the
\* line the loop is at; while a read is pending the loop does not move, and
\* it moves on by one line when the read has returned or thrown; the loop
\* never goes back, so reads start in ascending order of their links' lines.
C18_ReadsOneAtATimeInOrder ==
  [][ /\ (reading' # NoLink /\ reading' # reading) =>
           /\ reading = NoLink
           /\ reading'.lineNumber = currentLineNumber
           /\ currentLineNumber' = currentLineNumber
           /\ \A x \in Range(sessions) :
                x.linkedFile # "" => x.startLine < reading'.lineNumber
      /\ reading # NoLink =>
           /\ reading' = NoLink
           /\ currentLineNumber' = reading.lineNumber + 1
      /\ currentLineNumber' >= currentLineNumber ]_vars

\* the read of the link on the second line is pending, the read of the link
\* on the first line has given its session
C18_Witness ==
  /\ pc = "read"
  /\ reading.lineNumber = 1
  /\ Len(sessions) = 1
  /\ sessions[1].linkedFile # "" /\ sessions[1].startLine = 0


(***************************************************************************)
(* Mechanics rolls and the elements of a code block                        *)
(***************************************************************************)
SuccessWords ==
  {<<"s", "u", "c", "c", "e", "s", "s">>,
   <<"s", "t", "r", "o", "n", "g", " ", "h", "i", "t">>}

FailWords == {<<"f", "a", "i", "l">>, <<"m", "i", "s", "s">>}

\* the outcome contains one of the words, whatever the case of its letters
ContainsAny(outcome, words) == \E w \in words : includes(toLowerCase(outcome), w)

NonBlankLines(content) == {k \in 1..Len(content) : content[k].k # "blank"}

\* the index of the n-th line of content that is not blank
NthNonBlank(content, n) ==
  CHOOSE k \in NonBlankLines(content) :
    Cardinality({j \in NonBlankLines(content) : j <= k}) = n

\* C20: parseCodeBlock(content, start) returns one element for each line of
\* content that is not blank, in the order of the lines, and none for a
\* blank line; the element of the line at (0-based) index k has the line
\* number start + k, so that a blank line advances the count.
C20_OneElementPerNonBlankLine ==
  block.ran =>
    /\ Len(block.elements) = Cardinality(NonBlankLines(block.content))
    /\ \A n \in 1..Len(block.elements) :
         LET k == NthNonBlank(block.content, n)
         IN  /\ block.elements[n].lineNumber = block.startLine + (k - 1)
             /\ block.elements[n].type = block.content[k].type
             /\ block.elements[n].outcome = block.content[k].outcome

\* a block that begins with a blank line was parsed from a start that is not 0
C20_Witness ==
  /\ block.ran
  /\ block.startLine > 0
  /\ Len(block.content) = 2
  /\ block.content[1].k = "blank"
  /\ Len(block.elements) = 1
  /\ block.elements[1].lineNumber = block.startLine + 1


(***************************************************************************)
(* What one call returns when it runs alone                                *)
(***************************************************************************)
\* the first header of d after line i, or the line after d
NextHeaderOf(d, i) ==
  LET later == {j \in 1..Len(d) : d[j].k = "session" /\ j > i}
  IN  IF later = {} THEN Len(d) + 1 ELSE CHOOSE j \in later : \A k \in later : j <= k

\* the sessions that the lines i.. of d give, in the order of the lines
RECURSIVE SoloSessionsIn(_, _, _)
SoloSessionsIn(d, v, i) ==
  IF i > Len(d) THEN <<>>
  ELSE IF d[i].k = "session"
  THEN <<[number |-> d[i].n,
          scenes |-> parseScenes(SubSeq(d, i + 1, NextHeaderOf(d, i) - 1), i - 1),
          startLine |-> i - 1,
          endLine |-> NextHeaderOf(d, i) - 2,
          linkedFile |-> ""]>> \o SoloSessionsIn(d, v, i + 1)
  ELSE IF /\ d[i].k = "link"
          /\ i < NextHeaderOf(d, 0)
          /\ d[i].to # ""
          /\ v[d[i].to].status = "file"
  THEN <<[number |-> d[i].n,
          scenes |-> parseScenes(v[d[i].to].lines, 0),
          startLine |-> i - 1,
          endLine |-> i - 1,
          linkedFile |-> d[i].to]>> \o SoloSessionsIn(d, v, i + 1)
  ELSE SoloSessionsIn(d, v, i + 1)

SoloSessions(d, i) == SoloSessionsIn(d, vault, i)

\* the Campaign of the document d and the linked documents of the vault
SoloCampaign(d) == buildCampaign(d, sortSessions(SoloSessions(d, 1)), CampaignPath)

\* C17: two calls of parseCampaignFile on one parser share no state: run one
\* after the other or interleaved at the reads of linked documents, each
\* returns the Campaign of its own document and of the linked documents it
\* read, and a Campaign that was returned is not changed by the other call.
C17_InvocationsShareNoState ==
  /\ pc = "done" => campaign = SoloCampaign(doc)
  /\ other.pc = "done" => other.campaign = SoloCampaign(other.doc)

\* the first call has returned the session of its link while the second,
\* started during the first call's read, awaits a read of its own
C17_Witness ==
  /\ pc = "done"
  /\ doc \notin TwoDocs
  /\ \E x \in Range(campaign.sessions) : x.linkedFile = "a.md"
  /\ other.pc = "read"
  /\ Len(other.doc) > MaxTwoLines
  /\ campaign = SoloCampaign(doc)


(***************************************************************************)
(* Links under an open inline session                                      *)
(***************************************************************************)
\* an inline session header lies on one of the lines the loop has passed
HeaderPassed == \E i \in 1..currentLineNumber : doc[i].k = "session"

\* C21: an inline session is open from its header to the next header or the
\* end of the document; a link on a line where a session is open starts no
\* read and gives no session (the line is collected as content of the open
\* session), so a read starts only where no session has been opened yet.
C21_LinkUnderOpenSessionIgnored ==
  [][/\ (pc = "scan" /\ pc' # "done") => (currentSession' # NoSession <=> HeaderPassed')
     /\ (currentSession # NoSession /\ pc' # "done") => currentSession' # NoSession
     /\ (/\ Scanning
         /\ currentSession # NoSession
         /\ doc[currentLineNumber + 1].k = "link") =>
           /\ pc' = "scan"
           /\ reading' = reading
           /\ sessions' = sessions
           /\ currentSessionContent'
                = Append(currentSessionContent, doc[currentLineNumber + 1])
     /\ pc' = "read" => (currentSession = NoSession /\ ~HeaderPassed)
     /\ pc' = "done" =>
          \A x \in Range(campaign'.sessions) :
            x.linkedFile # "" => \A i \in 1..(x.startLine + 1) : doc[i].k # "session"
    ]_vars

\* the parse of a document with a readable link under an inline header has
\* ended: the one session is the inline one
C21_Witness ==
  /\ pc = "done"
  /\ Len(doc) >= 2
  /\ doc[1].k = "session"
  /\ doc[2].k = "link" /\ doc[2].to # "" /\ vault[doc[2].to].status = "file"
  /\ \A x \in Range(campaign.sessions) : x.linkedFile = ""


(***************************************************************************)
(* Fences of a scene                                                       *)
(***************************************************************************)
\* the fence lines of content before line k (1-based)
FencesBefore(content, k) == {j \in 1..(k - 1) : content[j].k = "fence"}

\* line k is no fence and lies between an opening fence and its closing fence
InsideFences(content, k) ==
  /\ content[k].k # "fence"
  /\ Cardinality(FencesBefore(content, k)) % 2 = 1
  /\ \E c \in (k + 1)..Len(content) : content[c].k = "fence"

\* the element list holds an element made of line k of the content
YieldsElement(k) ==
  \E n \in 1..Len(block.elements) :
    block.elements[n].lineNumber = block.startLine + (k - 1)

\* C22 as stated: every line of a scene yields an element if and only if it
\* lies strictly between an opening fence and the next closing fence.
C22_EveryFencedLineYields ==
  block.ran =>
    \A k \in 1..Len(block.content) :
      YieldsElement(k) <=> InsideFences(block.content, k)

\* C22: a line of a scene yields an element if and only if it is not blank
\* and lies strictly between an opening fence and the next closing fence:
\* prose outside fences and lines after a fence that is never closed yield
\* nothing, each yielding line gives one element of its type, and the
\* elements of all the blocks are in the order of the lines.
C22_NonBlankFencedLineYields ==
  block.ran =>
    /\ \A k \in 1..Len(block.content) :
         YieldsElement(k) <=>
           (InsideFences(block.content, k) /\ block.content[k].k # "blank")
    /\ \A n \in 1..Len(block.elements) :
         LET k == block.elements[n].lineNumber - block.startLine + 1
         IN  /\ k \in 1..Len(block.content)
             /\ block.elements[n].type = block.content[k].type
    /\ \A m, n \in 1..Len(block.elements) :
         m < n => block.elements[m].lineNumber < block.elements[n].lineNumber

\* a block with a blank line and a line of notation, then prose, then a fence
\* that is never closed: one element
C22_Witness ==
  /\ block.ran
  /\ block.content = <<FenceLine, BlankLine, TextLine("action", <<>>), FenceLine,
                       TextLine("text", <<>>), FenceLine>>
  /\ Len(block.elements) = 1
  /\ block.elements[1].type = "action"
  /\ block.elements[1].lineNumber = block.startLine + 2


(***************************************************************************)
(* Meta notes                                                              *)
(***************************************************************************)
IsMetaNote(line) == line.k = "line" /\ line.type = "meta_note"

\* the lines with every meta note taken out, its line left empty
WithoutMetaNotes(lines) ==
  [i \in 1..Len(lines) |-> IF IsMetaNote(lines[i]) THEN BlankLine ELSE lines[i]]

\* the Campaign of the document and the linked documents without their meta notes
CampaignWithoutMetaNotes ==
  buildCampaign(
    WithoutMetaNotes(doc),
    sortSessions(SoloSessionsIn(WithoutMetaNotes(doc),
                   [p \in Paths |-> [vault[p] EXCEPT !.lines = WithoutMetaNotes(@)]],
                   1)),
    CampaignPath)

\* the line numbers of the meta-note elements of the sessions
MetaNoteLines(list) ==
  UNION {UNION {{e.lineNumber : e \in {x \in Range(sc.elements) : x.type = "meta_note"}}
                : sc \in Range(s.scenes)} : s \in Range(list)}

\* the line numbers of all the mentions of a list of entities
MentionLines(entities) ==
  UNION {{m.lineNumber : m \in Range(e.value.mentions)} : e \in Range(entities)}

\* C23: the tags and back-references of meta notes add nothing: every
\* mapping of the campaign (entities, mentions, references) is what the
\* document gives with its meta notes taken out (their lines left empty, so
\* that the other lines keep their numbers), and when the tags stand one to
\* a line no mention lies on the line of a meta note.
C23_MetaNotesAddNothing ==
  (pc = "done" /\ MetaNoteLines(campaign.sessions) # {}) =>
    LET c == CampaignWithoutMetaNotes
    IN  /\ campaign.npcs = c.npcs
        /\ campaign.locations = c.locations
        /\ campaign.playerCharacters = c.playerCharacters
        /\ campaign.threads = c.threads
        /\ campaign.clocks = c.clocks
        /\ campaign.tracks = c.tracks
        /\ campaign.timers = c.timers
        /\ campaign.events = c.events
        /\ campaign.references = c.references
        /\ \A l \in MetaNoteLines(campaign.sessions) :
             /\ l \notin MentionLines(campaign.npcs)
             /\ l \notin MentionLines(campaign.threads)
             /\ l \notin MentionLines(campaign.references)

\* a meta note that holds [N:S|g] and a closed thread X, after a line that
\* holds [N:S|f]: one NPC with the tag f and one mention, and no thread
C23_Witness ==
  /\ pc = "done"
  /\ MetaNoteLines(campaign.sessions) # {}
  /\ \E s \in Range(campaign.sessions) : \E sc \in Range(s.scenes) :
       \E e \in Range(sc.elements) :
         e.type = "meta_note" /\ Len(e.tags) = 2
  /\ Len(campaign.npcs) = 1
  /\ Len(campaign.npcs[1].value.mentions) = 1
  /\ campaign.npcs[1].value.tags = <<<<"f">>>>
  /\ campaign.threads = <<>>


(***************************************************************************)
(* The title of the campaign                                               *)
(***************************************************************************)
\* the line that closes the front-matter block of d, or 0
ClosingLine(d) ==
  IF Len(d) >= 3 /\ d[1].k = "delim" /\ \E j \in 3..Len(d) : d[j].k = "delim"
  THEN CHOOSE j \in 3..Len(d) : d[j].k = "delim" /\ \A i \in 3..(j - 1) : d[i].k # "delim"
  ELSE 0

\* d has a front-matter block and every line of the block is good YAML
FrontMatterParses(d) ==
  /\ ClosingLine(d) # 0
  /\ \A i \in 2..(ClosingLine(d) - 1) : d[i].k = "yaml" /\ d[i].type # "bad"

\* the front-matter title of d: empty when there is none
FrontMatterTitle(d) ==
  IF FrontMatterParses(d) /\ \E i \in 2..(ClosingLine(d) - 1) : d[i].type = "title"
  THEN d[CHOOSE i \in 2..(ClosingLine(d) - 1) : d[i].type = "title"].id
  ELSE <<>>

\* the "# " heading lines of d
HeadingLines(d) == {i \in 1..Len(d) : d[i].k = "h1"}

\* C24: the title of the campaign is the front-matter title when the front
\* matter parses and its title is not empty; otherwise the text of the first
\* "# " heading line of the document; otherwise "Untitled Campaign". Front
\* matter that does not parse counts as empty and the parse still ends.
C24_TitlePrecedence ==
  pc = "done" =>
    /\ campaign.title =
         IF FrontMatterTitle(doc) # <<>> THEN FrontMatterTitle(doc)
         ELSE IF HeadingLines(doc) # {}
         THEN trim(doc[CHOOSE i \in HeadingLines(doc) :
                         \A j \in HeadingLines(doc) : i <= j].id)
         ELSE UntitledCampaign
    /\ ~FrontMatterParses(doc) => campaign.frontMatter = NoFrontMatter

\* C24 on the documents that have no line that holds "#" alone
C24_TitlePrecedenceNoBareHash ==
  (\A i \in 1..Len(doc) : doc[i].k # "hash") => C24_TitlePrecedence


(***************************************************************************)
(* Tag lists as sets                                                       *)
(***************************************************************************)
NoDuplicate(tags) == \A i, j \in 1..Len(tags) : tags[i] = tags[j] => i = j

\* C25: after every sequence of NPC, Location or PlayerCharacter mentions,
\* the first mention of an identity included, no tags list of a canonical
\* entity holds a string twice.
C25_TagsHaveNoDuplicates ==
  \A e \in Range(merged) : NoDuplicate(e.value.tags)


(***************************************************************************)
(* Line numbers of scenes                                                  *)
(***************************************************************************)
\* C26: the startLine of every scene, of an inline or of a linked session,
\* is the 0-based index of the scene's "### " heading line in the document
\* that holds it.
C26_SceneStartLineIsItsHeading ==
  pc = "done" =>
    \A i \in 1..Len(campaign.sessions) :
      LET session == campaign.sessions[i]
          source == SourceOf(session)
      IN  \A j \in 1..Len(session.scenes) :
            /\ session.scenes[j].startLine + 1 \in 1..Len(source)
            /\ source[session.scenes[j].startLine + 1].k = "scene"
            /\ source[session.scenes[j].startLine + 1].id = session.scenes[j].number

\* C26 for the scenes of linked sessions alone
C26_LinkedSceneStartLineIsItsHeading ==
  pc = "done" =>
    \A i \in 1..Len(campaign.sessions) :
      LET session == campaign.sessions[i]
          source == SourceOf(session)
      IN  session.linkedFile # "" =>
            \A j \in 1..Len(session.scenes) :
              /\ session.scenes[j].startLine + 1 \in 1..Len(source)
              /\ source[session.scenes[j].startLine + 1].k = "scene"
              /\ source[session.scenes[j].startLine + 1].id = session.scenes[j].number


(***************************************************************************)
(* Notation before the first scene heading                                 *)
(***************************************************************************)
\* the lines of one session, those before its first scene heading left empty
WithoutPreScene(lines, from) ==
  LET heads == {i \in from..Len(lines) : lines[i].k = "scene"}
      first == IF heads = {} THEN Len(lines) + 1
               ELSE CHOOSE i \in heads : \A j \in heads : i <= j
  IN  [i \in 1..Len(lines) |-> IF i >= from /\ i < first THEN BlankLine ELSE lines[i]]

\* the Campaign of the document with one inline session, or of the linked
\* documents, with nothing before the first scene heading
CampaignWithoutPreScene ==
  buildCampaign(
    doc,
    sortSessions(SoloSessionsIn(WithoutPreScene(doc, 2),
                   [p \in Paths |-> [vault[p] EXCEPT !.lines = WithoutPreScene(@, 1)]],
                   1)),
    CampaignPath)

\* the session has a fenced block with a tagged line before its first scene
HasPreSceneTags(session) ==
  LET source == SourceOf(session)
      from == IF session.linkedFile # "" THEN 1 ELSE session.startLine + 2
  IN  /\ Len(source) >= from + 2
      /\ source[from].k = "fence"
      /\ source[from + 1].k = "line" /\ source[from + 1].tags # <<>>

\* C27: fenced notation that lies in a session before the session's first
\* scene heading belongs to no scene: it gives no element, and its tags give
\* no entity and no mention. The sessions and every mapping are what the
\* documents give with those lines left empty, and a session without a scene
\* heading has no scene and gives nothing.
C27_PreSceneNotationIgnored ==
  (/\ pc = "done"
   /\ Cardinality({i \in 1..Len(doc) : doc[i].k = "session"}) <= 1
   /\ \E s \in Range(campaign.sessions) : HasPreSceneTags(s)) =>
    LET c == CampaignWithoutPreScene
    IN  /\ campaign = c
        /\ \A s \in Range(campaign.sessions) :
             (\A i \in 1..Len(SourceOf(s)) : SourceOf(s)[i].k # "scene") =>
               s.scenes = <<>>
        /\ (\A s \in Range(campaign.sessions) : s.scenes = <<>>) =>
             /\ campaign.npcs = <<>>
             /\ campaign.threads = <<>>
             /\ campaign.references = <<>>

\* [N:S|f] and a thread in a fenced block before the scene S1, whose own
\* block holds the back-reference [#N:S]: the NPC has no tag and one mention
C27_Witness ==
  /\ pc = "done"
  /\ Len(campaign.sessions) = 1
  /\ HasPreSceneTags(campaign.sessions[1])
  /\ SourceOf(campaign.sessions[1])[IF campaign.sessions[1].linkedFile # ""
                                     THEN 2 ELSE 3].tags
       = <<Tag("N", <<"S">>, <<<<"f">>>>), ThreadTag(<<"X">>, "Open")>>
  /\ Len(campaign.sessions[1].scenes) = 1
  /\ Len(campaign.sessions[1].scenes[1].elements) = 1
  /\ Len(campaign.npcs) = 1
  /\ campaign.npcs[1].value.tags = <<>>
  /\ Len(campaign.npcs[1].value.mentions) = 1
  /\ campaign.threads = <<>>


(***************************************************************************)
(* DashboardView: the screens and their events.  The campaigns are the     *)
(* parser's results for two campaign files                                 *)
(***************************************************************************)
DashVault ==
  [p \in Paths |->
    [status |-> "file",
     lines |-> Fenced(<<TextLine("action", <<Tag("N", <<"J">>, <<<<"s">>>>)>>),
                        TextLine("table_lookup", <<>>)>>)]]

DashDocs ==
  {<<SessionLine(1)>>
     \o Fenced(<<TextLine("action", <<Tag("N", <<"S">>, <<<<"f">>>>),
                                       ThreadTag(<<"X">>, "Open")>>),
                 TextLine("meta_note", <<>>),
                 TextLine("text", <<Tag("#L", <<"S">>, <<>>)>>)>>),
   <<LinkLine(1, "a.md")>>}

DashCampaigns ==
  {buildCampaign(d, sortSessions(SoloSessionsIn(d, DashVault, 1)), CampaignPath) :
     d \in DashDocs}

\* :186 the chips of the type filter
ElementTypes ==
  {"All", "PC", "NPC", "Location", "Thread", "Clock", "Track", "Timer", "Event",
   "MetaNote", "TableLookup", "Generator", "Reference"}

\* what the user can type into the search box
QueryChars == {"s", "f", "X"}

Queries == {<<>>} \cup SeqsUpTo(QueryChars, MaxQueryLen)

\* render() :91-105 with renderElementsScreen's fallback :133-138; screen is
\* the screen that is drawn and list the cards of renderElementsList
render(v) ==
  IF v.currentScreen = "campaigns"
  THEN [v EXCEPT !.screen = "campaigns", !.list = <<>>]
  ELSE IF v.selectedCampaign = NoCampaign
  THEN [v EXCEPT !.currentScreen = "campaigns", !.screen = "campaigns", !.list = <<>>]
  ELSE [v EXCEPT !.screen = "elements",
                 !.list = getFilteredElements(v.selectedCampaign, v.currentElementType,
                                              v.searchQuery)]

DashUnchanged == UNCHANGED <<doc, vault, pc, currentLineNumber, currentSession,
                             currentSessionContent, sessionStartLine, sessions, reading,
                             campaign, mkind, merged, npc, ti, mphase, before, count,
                             other, block, workspace>>

\* :258-264
CampaignCardClick(c) ==
  /\ view.screen = "campaigns"
  /\ view' = render([view EXCEPT !.selectedCampaign = c, !.currentScreen = "elements"])
  /\ DashUnchanged

BackClickKeepsQuery ==
  /\ view.screen = "elements"
  /\ view' = render([view EXCEPT !.currentScreen = "campaigns",
                                 !.selectedCampaign = NoCampaign])
  /\ DashUnchanged

\* :146-152
BackClick ==
  /\ view.screen = "elements"
  /\ view' = render([view EXCEPT !.currentScreen = "campaigns",
                                 !.selectedCampaign = NoCampaign,
                                 !.currentElementType = "All",
                                 !.searchQuery = <<>>])
  /\ DashUnchanged

\* :202-205
TypeChipClick(type) ==
  /\ view.screen = "elements"
  /\ view' = render([view EXCEPT !.currentElementType = type])
  /\ DashUnchanged

\* :173-184 the input handler stores the text and restarts the timer
SearchInput(q) ==
  /\ view.screen = "elements"
  /\ view' = [view EXCEPT !.searchQuery = q, !.debounceTimer = "pending"]
  /\ DashUnchanged

\* :180-183 the timer's callback
DebounceFires ==
  /\ view.debounceTimer = "pending"
  /\ view' = render([view EXCEPT !.debounceTimer = "fired"])
  /\ DashUnchanged

\* :115 and :157
RefreshClick ==
  /\ view.screen \in {"campaigns", "elements"}
  /\ view' = render(view)
  /\ DashUnchanged

NextDashboard ==
  \/ \E c \in DashCampaigns : CampaignCardClick(c)
  \/ BackClick
  \/ \E type \in ElementTypes : TypeChipClick(type)
  \/ \E q \in Queries : SearchInput(q)
  \/ DebounceFires
  \/ RefreshClick

\* :53-59 the fields after construction, then onOpen :80-82
InitDashboard ==
  /\ ParserIdle
  /\ MergeOff
  /\ other = NoOther
  /\ block = NoBlock
  /\ workspace = NoWorkspace
  /\ view = render([currentScreen |-> "campaigns", selectedCampaign |-> NoCampaign,
                    currentElementType |-> "All", searchQuery |-> <<>>,
                    debounceTimer |-> "null", screen |-> "off", list |-> <<>>])

SpecDashboard == InitDashboard /\ [][NextDashboard]_vars

\* C28: after any sequence of dashboard events the elements screen has a
\* selected campaign, and the campaigns screen has the type filter 'All' and
\* an empty search query
C28_ScreenInvariant ==
  /\ view.currentScreen = "elements" => view.selectedCampaign # NoCampaign
  /\ view.currentScreen = "campaigns" =>
       view.currentElementType = "All" /\ view.searchQuery = <<>>

\* the user chose a type, typed a query and went back before the timer fired
C28_Witness ==
  /\ view.currentScreen = "campaigns"
  /\ view.screen = "campaigns"
  /\ view.debounceTimer = "pending"
  /\ view.currentElementType = "All"
  /\ view.searchQuery = <<>>

C28_WitnessElements ==
  /\ view.currentScreen = "elements"
  /\ view.selectedCampaign \in DashCampaigns
  /\ view.debounceTimer = "fired"
  /\ view.searchQuery # <<>>
  /\ view.currentElementType # "All"

\* the name and the tags of the element a card shows
CardName(card) == IF "name" \in DOMAIN card.data THEN card.data.name ELSE <<>>

CardTags(card) == IF "tags" \in DOMAIN card.data THEN card.data.tags ELSE <<>>

CardMatches(card, q) ==
  \/ includes(toLowerCase(CardName(card)), toLowerCase(q))
  \/ \E i \in 1..Len(CardTags(card)) :
       includes(toLowerCase(CardTags(card)[i]), toLowerCase(q))

Cards(list) == {list[i] : i \in 1..Len(list)}

\* C30: with a non-empty search query the list that is drawn holds exactly
\* the elements of the chosen type, 'All' included, whose name or one of
\* whose tags contains the query case-insensitively
C30_SearchFiltersByNameOrTag ==
  (/\ view.screen = "elements"
   /\ view.debounceTimer # "pending"
   /\ view.searchQuery # <<>>)
  => Cards(view.list)
       = {card \in Cards(getFilteredElements(view.selectedCampaign,
                                              view.currentElementType, <<>>)) :
            CardMatches(card, view.searchQuery)}

\* C30, the type 'All' alone
C30_AllIsFiltered ==
  (/\ view.screen = "elements"
   /\ view.debounceTimer # "pending"
   /\ view.searchQuery # <<>>
   /\ view.currentElementType = "All")
  => \A i \in 1..Len(view.list) : CardMatches(view.list[i], view.searchQuery)

\* C30, a single type alone
C30_TypedIsFiltered ==
  (/\ view.screen = "elements"
   /\ view.debounceTimer # "pending"
   /\ view.searchQuery # <<>>
   /\ view.currentElementType # "All")
  => \A card \in Cards(getFilteredElements(view.selectedCampaign,
                                            view.currentElementType, <<>>)) :
       CardMatches(card, view.searchQuery) => card \in Cards(view.list)


(***************************************************************************)
(* DashboardView.navigateToLocation.  workspace.files gives the line count *)
(* of each file, 0 for a path that is not a file; active is the file of    *)
(* the active view's editor, "" when the active view has no editor; cursor *)
(* is the line of the editor's cursor; notice is the Notice the last step  *)
(* showed; navs are the calls that wait at await leaf.openFile              *)
(***************************************************************************)
MaxLineCount == 2

MaxNavs == 2

FileNotFound == "File not found"

LocationNotFound == "Location not found in file, opened at top"

CouldNotNavigate == "Could not navigate to location"

\* the locations of the cards: a file and a stored line number
NavLocations == [file : NavPaths, lineNumber : 0..MaxLineCount]

NavUnchanged == UNCHANGED <<doc, vault, pc, currentLineNumber, currentSession,
                            currentSessionContent, sessionStartLine, sessions, reading,
                            campaign, mkind, merged, npc, ti, mphase, before, count,
                            other, block, view>>

\* :798-807 the click handler up to the await
NavigateClick(loc) ==
  /\ IF workspace.files[loc.file] = 0
     THEN workspace' = [workspace EXCEPT !.notice = FileNotFound]
     ELSE /\ Cardinality(workspace.navs) < MaxNavs
          /\ workspace' =
               [workspace EXCEPT
                  !.notice = "",
                  !.navs = @ \cup {[file |-> loc.file, lineNumber |-> loc.lineNumber,
                                    at |-> "opening"]}]
  /\ NavUnchanged

\* :807 openFile resolves: the leaf shows the file, in an editor or in a
\* view without one; an editor keeps its cursor inside the document
OpenDone(n, editor) ==
  /\ n \in workspace.navs
  /\ n.at = "opening"
  /\ LET to == IF editor THEN n.file ELSE ""
     IN  workspace' =
           [workspace EXCEPT
              !.active = to,
              !.cursor = IF to = workspace.active THEN @ ELSE 0,
              !.notice = "",
              !.navs = (@ \ {n}) \cup {[n EXCEPT !.at = "opened"]}]
  /\ NavUnchanged

\* :807 openFile rejects, :824-827
OpenFails(n) ==
  /\ n \in workspace.navs
  /\ n.at = "opening"
  /\ workspace' = [workspace EXCEPT !.notice = CouldNotNavigate, !.navs = @ \ {n}]
  /\ NavUnchanged

ResumeWithoutLineCheck(n) ==
  /\ n \in workspace.navs
  /\ n.at = "opened"
  /\ workspace' =
       IF workspace.active = ""
       THEN [workspace EXCEPT !.notice = "", !.navs = @ \ {n}]
       ELSE [workspace EXCEPT !.cursor = n.lineNumber, !.notice = "", !.navs = @ \ {n}]
  /\ NavUnchanged

\* :809-823 the call goes on after the await
ResumeAfterOpen(n) ==
  /\ n \in workspace.navs
  /\ n.at = "opened"
  /\ workspace' =
       IF workspace.active = ""
       THEN [workspace EXCEPT !.notice = "", !.navs = @ \ {n}]
       ELSE LET lineCount == workspace.files[workspace.active]
            IN  IF n.lineNumber >= lineCount
                THEN [workspace EXCEPT !.cursor = 0, !.notice = LocationNotFound,
                                       !.navs = @ \ {n}]
                ELSE [workspace EXCEPT !.cursor = n.lineNumber, !.notice = "",
                                       !.navs = @ \ {n}]
  /\ NavUnchanged

NavCalls == [file : NavPaths, lineNumber : 0..MaxLineCount, at : {"opening", "opened"}]

NextNavigate ==
  \/ \E loc \in NavLocations : NavigateClick(loc)
  \/ \E n \in NavCalls, editor \in BOOLEAN : OpenDone(n, editor)
  \/ \E n \in NavCalls : OpenFails(n)
  \/ \E n \in NavCalls : ResumeAfterOpen(n)

\* the files have any line counts; no file is open in an editor yet
InitNavigate ==
  /\ ParserIdle
  /\ MergeOff
  /\ other = NoOther
  /\ block = NoBlock
  /\ view = NoView
  /\ \E files \in [NavPaths -> 0..MaxLineCount] :
       workspace = [NoWorkspace EXCEPT !.files = files]

SpecNavigate == InitNavigate /\ [][NextNavigate]_vars

\* the editor that is active has its cursor on a line of its document
CursorInsideDocument ==
  workspace.active # "" => workspace.cursor < workspace.files[workspace.active]

\* C29: navigateToLocation never leaves the cursor on a line index at or
\* beyond the line count of the document in the editor; with a stored line
\* number at or beyond the line count it shows a notice and puts the cursor
\* on line 0; with a path that is not a file it shows a notice and opens
\* nothing
C29_NavigationStaysInsideDocument ==
  /\ [](CursorInsideDocument)
  /\ [][/\ \A n \in NavCalls :
             (/\ ResumeAfterOpen(n)
              /\ workspace.active # ""
              /\ n.lineNumber >= workspace.files[workspace.active])
             => (workspace'.cursor = 0 /\ workspace'.notice = LocationNotFound)
        /\ \A loc \in NavLocations :
             (NavigateClick(loc) /\ workspace.files[loc.file] = 0)
             => /\ workspace'.notice = FileNotFound
                /\ workspace'.active = workspace.active
                /\ workspace'.cursor = workspace.cursor
                /\ workspace'.navs = workspace.navs]_vars

\* a stored line beyond the end of the opened file: notice, cursor on line 0
C29_Witness ==
  /\ workspace.notice = LocationNotFound
  /\ workspace.active # ""
  /\ workspace.cursor = 0
  /\ workspace.files[workspace.active] > 1

\* a path that is not a file: notice, nothing open
C29_WitnessMissing ==
  /\ workspace.notice = FileNotFound
  /\ workspace.active = ""
  /\ workspace.navs = {}

====
